---- MODULE Spec2Model ----
(***************************************************************************)
(* A model of the BLACKONN autonomous agent                                *)
(* (src/backend/ml/blackonn_agent.py): the pattern engine (classifier and  *)
(* fix synthesizer), the apply / verify / rollback engine, the scanner    *)
(* sweeps, the rebuild bootstrap and the fix-mode and monitor-mode         *)
(* drivers.                                                                *)
(*                                                                         *)
(* Text is a sequence of one-character strings, so that substring search,  *)
(* first-occurrence replacement, line splitting and the fix templates'     *)
(* regular expressions are computed as the code computes them.             *)
(***************************************************************************)
EXTENDS Integers, Sequences, FiniteSets, TLC

(***************************************************************************)
(* Bounds of the model.                                                    *)
(***************************************************************************)
\* lines of the JavaScript source file at start
MaxLines == 2
\* entries of the client-error log in fix mode
MaxLog == 1
\* entries of the client-error log in monitor mode
MaxMonLog == 7
\* iterations of the monitor loop that are followed
MaxTicks == 2
\* data files that are missing or damaged before a rebuild
MaxOdd == 1

\* invocations of the command in a row
MaxRuns == 2

(***************************************************************************)
(* Text helpers: str slicing, `in`, str.replace(old, new, 1), split, join.  *)
(***************************************************************************)
NL == "\n"

Min(a, b) == IF a < b THEN a ELSE b

Max(a, b) == IF a > b THEN a ELSE b

\* t[i..j], 1-based and inclusive; empty when j < i
Slice(t, i, j) == IF j < i THEN <<>> ELSE SubSeq(t, i, j)

\* needle occurs in hay starting at position i
OccursAt(hay, needle, i) ==
    /\ i >= 1
    /\ i + Len(needle) - 1 <= Len(hay)
    /\ \A k \in 1..Len(needle) : hay[i + k - 1] = needle[k]

\* str.find: position of the first occurrence of needle in hay, 0 when absent
Find(hay, needle) ==
    LET hits == {i \in 1..(Len(hay) + 1) : OccursAt(hay, needle, i)}
    IN  IF hits = {} THEN 0 ELSE CHOOSE i \in hits : \A j \in hits : i <= j

\* `needle in hay`
Contains(hay, needle) == Find(hay, needle) # 0

\* a replacement that replaces nothing
ReplaceNone(hay, old, new) == hay

\* hay.replace(old, new, 1)
ReplaceFirst(hay, old, new) ==
    LET p == Find(hay, old)
    IN  IF p = 0 THEN hay
        ELSE Slice(hay, 1, p - 1) \o new \o Slice(hay, p + Len(old), Len(hay))

RECURSIVE Split(_)
\* content.split('\n')
Split(t) ==
    LET p == Find(t, <<NL>>)
    IN  IF p = 0 THEN <<t>>
        ELSE <<Slice(t, 1, p - 1)>> \o Split(Slice(t, p + 1, Len(t)))

RECURSIVE Join(_)
\* '\n'.join(lines)
Join(ls) ==
    IF Len(ls) = 0 THEN <<>>
    ELSE IF Len(ls) = 1 THEN ls[1]
    ELSE ls[1] \o <<NL>> \o Join(Tail(ls))

\* number of occurrences of character c in t
Count(t, c) == Cardinality({i \in 1..Len(t) : t[i] = c})

(***************************************************************************)
(* Character classes of the regular expressions.                           *)
(***************************************************************************)
\* \w
IsWord(c) == c \in {"a", "b", "c", "1"}

\* \s
IsSpace(c) == c \in {" ", NL}

\* the end of the run of \w characters that starts at i
WordRunEnd(t, i) ==
    CHOOSE j \in i..Len(t) :
        /\ \A k \in i..j : IsWord(t[k])
        /\ (j = Len(t) \/ ~IsWord(t[j + 1]))

\* the end of the run of \s characters that starts at i (i - 1 when none)
SpaceRunEnd(t, i) ==
    CHOOSE j \in (i - 1)..Len(t) :
        /\ \A k \in i..j : IsSpace(t[k])
        /\ (j = Len(t) \/ ~IsSpace(t[j + 1]))

\* the least element of a non-empty set of positions
Least(S) == CHOOSE i \in S : \A j \in S : i <= j

NoMatch == [found |-> FALSE, s |-> 0, e |-> 0, repl |-> <<>>]

(***************************************************************************)
(* The fix templates' regular expressions (_load_fix_templates).  Each     *)
(* search returns the leftmost match of re.search as [found, s, e, repl]:  *)
(* the match is t[s..e] and repl is the expansion of the template's        *)
(* replacement for that match.                                             *)
(***************************************************************************)
\* (\w+)\.(\w+)  at position i: a word run, a dot, a word run
DotPairAt(t, i) ==
    /\ IsWord(t[i])
    /\ LET e1 == WordRunEnd(t, i)
       IN  /\ e1 + 2 <= Len(t)
           /\ t[e1 + 1] = "."
           /\ IsWord(t[e1 + 2])

\* (\w+)\.(\w+)\.(\w+)  at position i
DotTripleAt(t, i) ==
    /\ DotPairAt(t, i)
    /\ LET e2 == WordRunEnd(t, WordRunEnd(t, i) + 2)
       IN  /\ e2 + 2 <= Len(t)
           /\ t[e2 + 1] = "."
           /\ IsWord(t[e2 + 2])

\* 'null_check_before_access': (\w+)\.(\w+)  ->  \1 && \1.\2
SearchNullCheck(t) ==
    LET starts == {i \in 1..Len(t) : DotPairAt(t, i)}
    IN  IF starts = {} THEN NoMatch
        ELSE LET s  == Least(starts)
                 e1 == WordRunEnd(t, s)
                 e2 == WordRunEnd(t, e1 + 2)
                 g1 == Slice(t, s, e1)
                 g2 == Slice(t, e1 + 2, e2)
             IN  [found |-> TRUE, s |-> s, e |-> e2,
                  repl |-> g1 \o <<" ", "&", "&", " ">> \o g1 \o <<".">> \o g2]

\* 'optional_chaining': (\w+)\.(\w+)\.(\w+)  ->  \1?.\2?.\3
SearchOptionalChaining(t) ==
    LET starts == {i \in 1..Len(t) : DotTripleAt(t, i)}
    IN  IF starts = {} THEN NoMatch
        ELSE LET s  == Least(starts)
                 e1 == WordRunEnd(t, s)
                 e2 == WordRunEnd(t, e1 + 2)
                 e3 == WordRunEnd(t, e2 + 2)
                 g1 == Slice(t, s, e1)
                 g2 == Slice(t, e1 + 2, e2)
                 g3 == Slice(t, e2 + 2, e3)
             IN  [found |-> TRUE, s |-> s, e |-> e3,
                  repl |-> g1 \o <<"?", ".">> \o g2 \o <<"?", ".">> \o g3]

\* 'default_value': (\w+)\.(\w+)  ->  (\1?.\2 ?? "")
SearchDefaultValue(t) ==
    LET m == SearchNullCheck(t)
    IN  IF ~m.found THEN NoMatch
        ELSE LET e1 == WordRunEnd(t, m.s)
                 g1 == Slice(t, m.s, e1)
                 g2 == Slice(t, e1 + 2, m.e)
             IN  [m EXCEPT !.repl =
                      <<"(">> \o g1 \o <<"?", ".">> \o g2
                          \o <<" ", "?", "?", " ", "\"", "\"", ")">>]

\* 'missing_semicolon': ([^;{}\n])\s*\n  ->  \1;\n
SearchMissingSemicolon(t) ==
    LET ok(i) == /\ t[i] \notin {";", "{", "}", NL}
                 /\ \E k \in (i + 1)..SpaceRunEnd(t, i + 1) : t[k] = NL
        starts == {i \in 1..Len(t) : ok(i)}
    IN  IF starts = {} THEN NoMatch
        ELSE LET s == Least(starts)
                 \* \s* is greedy: the match ends at the last newline of the run
                 e == CHOOSE k \in (s + 1)..SpaceRunEnd(t, s + 1) :
                          /\ t[k] = NL
                          /\ \A j \in (k + 1)..SpaceRunEnd(t, s + 1) : t[j] # NL
             IN  [found |-> TRUE, s |-> s, e |-> e, repl |-> <<t[s], ";", NL>>]

\* 'missing_bracket': (\{[^}]*$)  ->  \1\n}
SearchMissingBracket(t) ==
    LET starts == {i \in 1..Len(t) :
                      t[i] = "{" /\ \A k \in (i + 1)..Len(t) : t[k] # "}"}
    IN  IF starts = {} THEN NoMatch
        ELSE LET s == Least(starts)
             IN  [found |-> TRUE, s |-> s, e |-> Len(t),
                  repl |-> Slice(t, s, Len(t)) \o <<NL, "}">>]

\* 'fix_json_trailing_comma': ,(\s*[\]}])  ->  \1
SearchJsonTrailingComma(t) ==
    LET ok(i) == /\ t[i] = ","
                 /\ LET w == SpaceRunEnd(t, i + 1)
                    IN  \E k \in (i + 1)..Min(w + 1, Len(t)) : t[k] \in {"]", "}"}
        starts == {i \in 1..Len(t) : ok(i)}
    IN  IF starts = {} THEN NoMatch
        ELSE LET s == Least(starts)
                 e == SpaceRunEnd(t, s + 1) + 1
             IN  [found |-> TRUE, s |-> s, e |-> e, repl |-> Slice(t, s + 1, e)]

\* 'fix_json_quotes': '([^']*)':  ->  "\1":
SearchJsonQuotes(t) ==
    LET close(i) == Least({j \in (i + 1)..Len(t) : t[j] = "'"})
        ok(i) == /\ t[i] = "'"
                 /\ \E j \in (i + 1)..Len(t) : t[j] = "'"
                 /\ close(i) + 1 <= Len(t)
                 /\ t[close(i) + 1] = ":"
        starts == {i \in 1..Len(t) : ok(i)}
    IN  IF starts = {} THEN NoMatch
        ELSE LET s == Least(starts)
                 j == close(s)
             IN  [found |-> TRUE, s |-> s, e |-> j + 1,
                  repl |-> <<"\"">> \o Slice(t, s + 1, j - 1) \o <<"\"", ":">>]

\* the templates table: name -> pattern
TemplateNames ==
    {"null_check_before_access", "optional_chaining", "default_value",
     "missing_semicolon", "missing_bracket",
     "fix_json_trailing_comma", "fix_json_quotes"}

\* re.search(template['pattern'], t)
TemplateSearch(name, t) ==
    CASE name = "null_check_before_access" -> SearchNullCheck(t)
      [] name = "optional_chaining"        -> SearchOptionalChaining(t)
      [] name = "default_value"            -> SearchDefaultValue(t)
      [] name = "missing_semicolon"        -> SearchMissingSemicolon(t)
      [] name = "missing_bracket"          -> SearchMissingBracket(t)
      [] name = "fix_json_trailing_comma"  -> SearchJsonTrailingComma(t)
      [] name = "fix_json_quotes"          -> SearchJsonQuotes(t)
      [] OTHER                             -> NoMatch

\* the text with the match m replaced by its expansion
Splice(t, m) ==
    IF ~m.found THEN t
    ELSE Slice(t, 1, m.s - 1) \o m.repl \o Slice(t, m.e + 1, Len(t))

\* re.sub(template['pattern'], template['replacement'], t, count=1)
TemplateSub(name, t) == Splice(t, TemplateSearch(name, t))

\* template['confidence'], in thousandths
TemplateConfidence(name) ==
    CASE name = "null_check_before_access" -> 850
      [] name = "optional_chaining"        -> 900
      [] name = "default_value"            -> 800
      [] name = "define_missing_variable"  -> 700
      [] name = "typeof_check"             -> 750
      [] name = "array_check"              -> 850
      [] name = "empty_array_default"      -> 900
      [] name = "add_async"                -> 800
      [] name = "wrap_try_catch"           -> 750
      [] name = "dom_ready_check"          -> 700
      [] name = "element_exists_check"     -> 850
      [] name = "missing_semicolon"        -> 600
      [] name = "missing_bracket"          -> 550
      [] name = "fix_json_trailing_comma"  -> 950
      [] name = "fix_json_quotes"          -> 900


(***************************************************************************)
(* json.loads on the text: numbers, strings, arrays and objects.  A parse  *)
(* operator returns the position after what it parsed or, on failure, a    *)
(* negative number that encodes the position (e.pos + 1) and the message   *)
(* (e.msg) of the json.JSONDecodeError.                                    *)
(***************************************************************************)
\* an undecodable byte: read_text() raises UnicodeDecodeError on it
BadByte == "\\xff"

JsonMessages ==
    <<"Expecting value", "Expecting ',' delimiter", "Extra data",
      "Expecting property name enclosed in double quotes",
      "Unterminated string starting at", "Invalid control character at",
      "Expecting ':' delimiter">>

\* the failure with message JsonMessages[kind] at position pos
Fail(pos, kind) == 0 - (pos * 10 + kind)

\* the position after the whitespace that starts at i
SkipWs(t, i) == SpaceRunEnd(t, i) + 1

\* the character at i, or "" past the end
At(t, i) == IF i >= 1 /\ i <= Len(t) THEN t[i] ELSE ""

\* the end of the run of digits that starts at i
DigitRunEnd(t, i) ==
    CHOOSE j \in i..Len(t) :
        /\ \A k \in i..j : t[k] = "1"
        /\ (j = Len(t) \/ t[j + 1] # "1")

RECURSIVE ParseValue(_, _), ParseElems(_, _), ParseMembers(_, _)
ParseValue(t, i) ==
    CASE At(t, i) = "1"  -> DigitRunEnd(t, i) + 1
      [] At(t, i) = "\"" ->
            \* a string ends at the next quote; a raw newline inside is an error
            LET stops == {j \in (i + 1)..Len(t) : t[j] \in {"\"", NL}}
            IN  IF stops = {} THEN Fail(i, 5)
                ELSE IF t[Least(stops)] = NL THEN Fail(Least(stops), 6)
                ELSE Least(stops) + 1
      [] At(t, i) = "["  ->
            LET k == SkipWs(t, i + 1)
            IN  IF At(t, k) = "]" THEN k + 1 ELSE ParseElems(t, k)
      [] At(t, i) = "{"  ->
            LET k == SkipWs(t, i + 1)
            IN  IF At(t, k) = "}" THEN k + 1 ELSE ParseMembers(t, k)
      [] Slice(t, i, Min(i + 4, Len(t))) = <<"f", "a", "l", "s", "e">> -> i + 5
      [] OTHER -> Fail(i, 1)

\* the elements of an array from the element at i to the closing bracket
ParseElems(t, i) ==
    LET v == ParseValue(t, i)
    IN  IF v < 0 THEN v
        ELSE LET k == SkipWs(t, v)
             IN  CASE At(t, k) = "]" -> k + 1
                   [] At(t, k) = "," -> ParseElems(t, SkipWs(t, k + 1))
                   [] OTHER -> Fail(k, 2)

\* the members of an object from the key at i to the closing brace
ParseMembers(t, i) ==
    IF At(t, i) # "\"" THEN Fail(i, 4)
    ELSE LET key == ParseValue(t, i)
         IN  IF key < 0 THEN key
             ELSE LET c == SkipWs(t, key)
                  IN  IF At(t, c) # ":" THEN Fail(c, 7)
                      ELSE LET v == ParseValue(t, SkipWs(t, c + 1))
                           IN  IF v < 0 THEN v
                               ELSE LET k == SkipWs(t, v)
                                    IN  CASE At(t, k) = "}" -> k + 1
                                          [] At(t, k) = "," ->
                                               ParseMembers(t, SkipWs(t, k + 1))
                                          [] OTHER -> Fail(k, 2)

\* json.loads(t): 0 when t parses, else the encoded JSONDecodeError
JsonLoads(t) ==
    LET v == ParseValue(t, SkipWs(t, 1))
    IN  IF v < 0 THEN 0 - v
        ELSE IF SkipWs(t, v) = Len(t) + 1 THEN 0
        ELSE 0 - Fail(SkipWs(t, v), 3)

ParsesJson(t) == JsonLoads(t) = 0

\* e.pos + 1 of the JSONDecodeError
JsonErrorPos(t) == JsonLoads(t) \div 10

\* e.msg of the JSONDecodeError
JsonErrorMsg(t) == JsonMessages[JsonLoads(t) % 10]

\* e.lineno of the JSONDecodeError
JsonErrorLine(t) == Count(Slice(t, 1, JsonErrorPos(t) - 1), NL) + 1

(***************************************************************************)
(* The knowledge base of error signatures (_load_patterns), in declaration *)
(* order, and the error messages of the model.                             *)
(***************************************************************************)
Patterns ==
    <<[type |-> "undefined_variable", category |-> "reference"],
      [type |-> "undefined_variable", category |-> "null_reference"],
      [type |-> "undefined_variable", category |-> "null_reference"],
      [type |-> "undefined_variable", category |-> "reference"],
      [type |-> "syntax_error", category |-> "syntax"],
      [type |-> "syntax_error", category |-> "syntax"],
      [type |-> "syntax_error", category |-> "syntax"],
      [type |-> "syntax_error", category |-> "syntax"],
      [type |-> "syntax_error", category |-> "syntax"],
      [type |-> "syntax_error", category |-> "syntax"],
      [type |-> "syntax_error", category |-> "syntax"],
      [type |-> "type_error", category |-> "type"],
      [type |-> "type_error", category |-> "type"],
      [type |-> "type_error", category |-> "type"],
      [type |-> "type_error", category |-> "type"],
      [type |-> "async_error", category |-> "async"],
      [type |-> "async_error", category |-> "async"],
      [type |-> "async_error", category |-> "module"],
      [type |-> "api_error", category |-> "network"],
      [type |-> "api_error", category |-> "network"],
      [type |-> "api_error", category |-> "cors"],
      [type |-> "api_error", category |-> "resource"],
      [type |-> "api_error", category |-> "server"],
      [type |-> "dom_error", category |-> "dom"],
      [type |-> "dom_error", category |-> "dom"],
      [type |-> "dom_error", category |-> "dom"],
      [type |-> "dom_error", category |-> "dom"],
      [type |-> "python_import", category |-> "import"],
      [type |-> "python_import", category |-> "import"],
      [type |-> "python_attribute", category |-> "attribute"],
      [type |-> "python_attribute", category |-> "reference"],
      [type |-> "python_type", category |-> "type"],
      [type |-> "python_type", category |-> "type"],
      [type |-> "python_index", category |-> "index"],
      [type |-> "python_index", category |-> "key"],
      [type |-> "json_error", category |-> "json"],
      [type |-> "json_error", category |-> "json"],
      [type |-> "json_error", category |-> "json"]>>

\* messages a browser reports to the client-error log
MsgNullRef == "Cannot read property 'bar' of undefined"

MsgJsonToken == "SyntaxError: Unexpected token } in JSON at position 5"

MsgSyntax == "Uncaught SyntaxError: Unexpected end of input"

MsgScript == "Script error."

\* a log entry without the "message" key: item.get('message', '')
MsgEmpty == ""

\* a log entry whose "message" is a JSON array, not a string
MsgNotStr == "<list>"

\* what `node --check` writes to stderr for a file it rejects
MsgNodeSyntax == "main.js:1 SyntaxError: Unexpected end of input"

\* the message of the data-integrity sweep: f"Invalid JSON in {name}: {e.msg}"
InvalidJsonMessage(name, msg) == "Invalid JSON in " \o name \o ": " \o msg

\* the data files of the application (db_defaults of rebuild)
DataNames ==
    {"users.json", "products.json", "orders.json", "carts.json",
     "sessions.json", "slides.json", "wishlists.json", "contacts.json",
     "adminSettings.json"}

\* the rules whose regex re.search finds in the message (re.IGNORECASE)
MatchedRules(message) ==
    CASE message = MsgNullRef    -> {2}
      [] message = MsgJsonToken  -> {5, 11, 36, 38}
      [] message = MsgSyntax     -> {6, 11}
      [] message = MsgNodeSyntax -> {6, 11}
      [] message \in {InvalidJsonMessage(n, JsonMessages[5]) : n \in DataNames}
                                 -> {10}
      [] OTHER                   -> {}

(***************************************************************************)
(* PatternEngine.analyze_error                                             *)
(***************************************************************************)
RECURSIVE FirstCategory(_, _, _)
\* a loop that stops at the first matching rule
FirstCategory(matched, i, category) ==
    IF i > Len(Patterns) THEN category
    ELSE IF i \in matched THEN Patterns[i].category
    ELSE FirstCategory(matched, i + 1, category)

RECURSIVE LastCategory(_, _, _)
\* the loop over all rules: every matching rule overwrites the category
LastCategory(matched, i, category) ==
    IF i > Len(Patterns) THEN category
    ELSE LastCategory(matched, i + 1,
                      IF i \in matched THEN Patterns[i].category ELSE category)

FixStrategies(category) ==
    CASE category = "null_reference" ->
            <<"optional_chaining", "null_check_before_access", "default_value">>
      [] category = "reference" -> <<"typeof_check", "define_missing_variable">>
      [] category = "type"      -> <<"array_check", "empty_array_default">>
      [] category = "syntax"    -> <<"missing_semicolon", "missing_bracket">>
      [] category = "async"     -> <<"add_async", "wrap_try_catch">>
      [] category = "dom"       -> <<"element_exists_check", "dom_ready_check">>
      [] category = "json"      -> <<"fix_json_trailing_comma", "fix_json_quotes">>
      [] OTHER                  -> <<>>

\* a table that gives an unclassified Error a quarter
CategoryConfidenceQuarter(category) ==
    CASE category = "null_reference" -> 850
      [] category = "reference"      -> 700
      [] category = "type"           -> 750
      [] category = "syntax"         -> 600
      [] category = "async"          -> 750
      [] category = "dom"            -> 800
      [] category = "json"           -> 900
      [] OTHER                       -> 250

\* the category's base confidence, in thousandths
CategoryConfidence(category) ==
    CASE category = "null_reference" -> 850
      [] category = "reference"      -> 700
      [] category = "type"           -> 750
      [] category = "syntax"         -> 600
      [] category = "async"          -> 750
      [] category = "dom"            -> 800
      [] category = "json"           -> 900
      [] OTHER                       -> 0

\* difflib ratio of the message and a learned fix's recorded message, which
\* learn_fix always records as '': 1.0 for two empty strings, else 0.0
Similarity(s1, s2) == IF s1 = s2 THEN 1000 ELSE 0

\* the first learned fix whose recorded message is similar to the message
FirstSimilar(message, learned) ==
    LET hits == {i \in 1..Len(learned) :
                    Similarity(message, learned[i].error_message) > 700}
    IN  IF hits = {} THEN 0 ELSE Least(hits)

analyze_error(error, learned) ==
    LET matched  == MatchedRules(error.message)
        category == LastCategory(matched, 1, "unknown")
        base     == CategoryConfidence(category)
        hit      == FirstSimilar(error.message, learned)
    IN  [patterns_matched |-> matched,
         category |-> category,
         can_fix |-> matched # {},
         fix_strategies |-> FixStrategies(category),
         learned_fix_available |-> hit # 0,
         learned_fix |-> hit,
         confidence |-> IF hit # 0 THEN Min(950, base + 150) ELSE base]

(***************************************************************************)
(* PatternEngine._apply_fix_template and generate_fix                      *)
(***************************************************************************)
MIN_CONFIDENCE == 500

\* characters of context on each side of a full-file match
WindowChars == 100

NoFix == [kind |-> "none"]

Fix(error, original, fixed, confidence, pattern_used) ==
    [kind |-> "fix", error_id |-> error.id, file_path |-> error.file_path,
     original |-> original, fixed |-> fixed, confidence |-> confidence,
     pattern_used |-> pattern_used, applied |-> FALSE, verified |-> FALSE]

\* the Fix for a section of the file and what the template makes of it
SectionFix(error, original_section, fixed_section, confidence, name) ==
    IF original_section # fixed_section
    THEN Fix(error, original_section, fixed_section, confidence, name)
    ELSE NoFix

\* the window of +-100 characters around the match m
Window(content, m) ==
    Slice(content, Max(0, (m.s - 1) - WindowChars) + 1,
          Min(Len(content), m.e + WindowChars))

\* the Fix for the window, at the template's confidence less a fifth
WindowFix(error, original_section, name) ==
    SectionFix(error, original_section, TemplateSub(name, original_section),
               (TemplateConfidence(name) * 8) \div 10, name)

\* the fallback for the match m of the template's pattern in the file
GlobalMatchFix(error, content, name, m) ==
    IF ~m.found THEN NoFix ELSE WindowFix(error, Window(content, m), name)

\* the full-file fallback: the first match anywhere, in a +-100 character window
GlobalTemplateFix(error, content, name) ==
    GlobalMatchFix(error, content, name, TemplateSearch(name, content))

\* a window that starts three lines before line L
LineFixThreeBefore(error, lines, L, fixed_line, name) ==
    Fix(error, Join(Slice(lines, Max(1, L - 3), Min(Len(lines), L + 2))),
        Join(Slice([lines EXCEPT ![L] = fixed_line],
                   Max(1, L - 3), Min(Len(lines), L + 2))),
        TemplateConfidence(name), name)

\* the Fix for line L of the lines: the lines around it, L replaced
LineFix(error, lines, L, fixed_line, name) ==
    Fix(error, Join(Slice(lines, Max(0, L - 3) + 1, Min(Len(lines), L + 2))),
        Join(Slice([lines EXCEPT ![L] = fixed_line],
                   Max(0, L - 3) + 1, Min(Len(lines), L + 2))),
        TemplateConfidence(name), name)

\* the line-scoped attempt on the lines of the file, else the fallback
LinesTemplateFix(error, content, name, lines, L) ==
    IF L > 0 /\ L <= Len(lines) /\ TemplateSearch(name, lines[L]).found
    THEN LineFix(error, lines, L, TemplateSub(name, lines[L]), name)
    ELSE GlobalTemplateFix(error, content, name)

\* error.line is 0 when the error carries no line
apply_fix_template(error, content, name) ==
    LinesTemplateFix(error, content, name, Split(content), error.line)

\* the first of two attempts that yields a Fix
FirstFix(fix1, fix2) == IF fix1 # NoFix THEN fix1 ELSE fix2

RECURSIVE TryStrategies(_, _, _, _)
\* the loop over the strategies: the first template that yields a Fix wins
TryStrategies(error, content, strategies, i) ==
    IF i > Len(strategies) THEN NoFix
    ELSE IF strategies[i] \notin TemplateNames
    THEN TryStrategies(error, content, strategies, i + 1)
    ELSE FirstFix(apply_fix_template(error, content, strategies[i]),
                  TryStrategies(error, content, strategies, i + 1))

\* the Fix a learned fix gives when its original text is in the file
LearnedFix(error, content, analysis, learned) ==
    IF /\ analysis.learned_fix_available
       /\ Contains(content, learned[analysis.learned_fix].original)
    THEN Fix(error, learned[analysis.learned_fix].original,
             learned[analysis.learned_fix].fixed, 900, "learned")
    ELSE NoFix

generate_fix(error, content, analysis, learned) ==
    IF ~analysis.can_fix \/ analysis.fix_strategies = <<>> THEN NoFix
    ELSE FirstFix(TryStrategies(error, content, analysis.fix_strategies, 1),
                  LearnedFix(error, content, analysis, learned))

(***************************************************************************)
(* The environment: the files of the project, the client-error log, the    *)
(* clock and the external syntax checker.                                  *)
(***************************************************************************)
\* the JavaScript source of the front end
JsFile == "main.js"

Paths == {JsFile} \cup DataNames

NoPath == ""

Absent == [exists |-> FALSE, content |-> <<>>]

File(content) == [exists |-> TRUE, content |-> content]

\* fix.file_path.endswith('.js')
IsJs(path) == path = JsFile

\* read_text(encoding='utf-8') raises UnicodeDecodeError
Undecodable(t) == \E i \in 1..Len(t) : t[i] = BadByte

\* every prefix closes no more braces than it opens, and all are closed
Balanced(t) ==
    /\ \A n \in 1..Len(t) : Count(Slice(t, 1, n), "}") <= Count(Slice(t, 1, n), "{")
    /\ Count(t, "}") = Count(t, "{")

\* subprocess.run(["node", "--check", file]): "raise" when node cannot be
\* started, else the exit status, non-zero for unbalanced braces and for
\* bytes that are no UTF-8
NodeCheck(available, t) ==
    IF ~available THEN "raise"
    ELSE IF Balanced(t) /\ ~Undecodable(t) THEN "ok" ELSE "fail"

\* the line node reports: that of the first surplus brace, else the last line
NodeErrorLine(t) ==
    LET surplus == {n \in 1..Len(t) :
                       Count(Slice(t, 1, n), "}") > Count(Slice(t, 1, n), "{")}
    IN  IF surplus # {} THEN Count(Slice(t, 1, Least(surplus)), NL) + 1
        ELSE Len(Split(t))

\* read_text(encoding='utf-8', errors='ignore') drops the undecodable bytes
RECURSIVE DecodeIgnore(_)
DecodeIgnore(t) ==
    IF t = <<>> THEN <<>>
    ELSE (IF Head(t) = BadByte THEN <<>> ELSE <<Head(t)>>) \o DecodeIgnore(Tail(t))

(***************************************************************************)
(* State.                                                                  *)
(***************************************************************************)
VARIABLES
    mode,           \* the CLI mode of the process: "fix", "monitor", "rebuild"
    pc,             \* where the main thread is
    run,            \* the number of the process invocation
    files,          \* path -> [exists, content]
    dirs,           \* the directories that exist
    clientLog,      \* client-errors.json: [exists, big, entries]
    clock,          \* time.time()
    nodeAvailable,  \* whether `node` can be started
    edited,         \* whether a file was changed from outside the agent
    memory,         \* self.memory: [seen_errors, fixes, scans]
    diskMemory,     \* agent_memory.json
    actions,        \* self.actions
    learned_fixes,  \* pattern_engine.learned_fixes
    fixHistory,     \* fix_history.json
    running,        \* self.running
    backups,        \* the backup files: [of, ts, content]
    work,           \* the Errors the caller passes to fix(), in order
    idx,            \* the index in work of the Error being fixed
    fix,            \* the Fix of the current fix() call
    content,        \* _apply_fix's local `content`
    seen,           \* monitor's local `seen`
    ticks,          \* iterations of the monitor loop started
    result,         \* what the last operation returned or raised
    hub,            \* the request to the AI hub and what it returned
    api,            \* the requests the API server is handling, one per thread
    hist            \* history of the run, for stating the properties

vars == <<mode, pc, run, files, dirs, clientLog, clock, nodeAvailable, edited,
          memory, diskMemory, actions, learned_fixes, fixHistory, running,
          backups, work, idx, fix, content, seen, ticks, result, hub, api,
          hist>>

envVars == <<dirs, clientLog, nodeAvailable>>

storeVars == <<diskMemory, fixHistory, backups>>

\* memory['seen_errors'] holds at most this many ids
SeenCap == 500

\* the monitor fixes at most this many new Errors per tick
BatchCap == 5

\* the scanner replays at most this many entries of the client-error log
LogTail == 50


(***************************************************************************)
(* The scanner (BlackonnAgent.scan and its sweeps).                        *)
(***************************************************************************)
Error(id, message, file_path, line) ==
    [id |-> id, message |-> message, file_path |-> file_path, line |-> line,
     status |-> "pending"]

\* q[-n:]
LastN(q, n) == Slice(q, Max(1, Len(q) - n + 1), Len(q))

\* the id the scanner gives a log entry: its own, else one made of the time
ClientErrorId(item, now) ==
    IF item.id # "" THEN item.id ELSE "client_" \o ToString(now)

\* _resolve_path: the file the entry's source URL names, None when it has none
resolve_path(source) == source

\* sweep 1: the last entries of the client-error log, one Error each
scan_client_errors(log, now) ==
    IF ~log.exists THEN <<>>
    ELSE LET n    == Len(log.entries)
             tail == Slice(log.entries, Max(1, n - LogTail + 1), n)
         IN  [i \in 1..Len(tail) |->
                 Error(ClientErrorId(tail[i], now), tail[i].message,
                       resolve_path(tail[i].source), tail[i].line)]

\* the id of the syntax sweep: a hash of the file's path
SyntaxErrorId(path) == "syntax_" \o path

\* sweep 2: node --check on every JavaScript file of the front end
syntax_check_js(fs, available) ==
    IF fs[JsFile].exists /\ NodeCheck(available, fs[JsFile].content) = "fail"
    THEN <<Error(SyntaxErrorId(JsFile), MsgNodeSyntax, JsFile,
                 NodeErrorLine(fs[JsFile].content))>>
    ELSE <<>>

\* the order in which the data directory lists its files
DataOrder ==
    <<"adminSettings.json", "carts.json", "contacts.json", "orders.json",
      "products.json", "sessions.json", "slides.json", "users.json",
      "wishlists.json">>

\* json_file.stem: the name without its suffix
Stem(name) ==
    CASE name = "adminSettings.json" -> "adminSettings"
      [] name = "carts.json"         -> "carts"
      [] name = "contacts.json"      -> "contacts"
      [] name = "orders.json"        -> "orders"
      [] name = "products.json"      -> "products"
      [] name = "sessions.json"      -> "sessions"
      [] name = "slides.json"        -> "slides"
      [] name = "users.json"         -> "users"
      [] name = "wishlists.json"     -> "wishlists"

RECURSIVE JsonSweep(_, _)
\* sweep 3 from the i-th data file on: an Error per file json.loads rejects
JsonSweep(fs, i) ==
    IF i > Len(DataOrder) THEN <<>>
    ELSE LET name == DataOrder[i]
             text == fs[name].content
         IN  (IF fs[name].exists /\ ~ParsesJson(text)
              THEN <<Error("json_" \o Stem(name), InvalidJsonMessage(name, JsonErrorMsg(text)),
                           name, JsonErrorLine(text))>>
              ELSE <<>>) \o JsonSweep(fs, i + 1)

validate_json_files(fs) == JsonSweep(fs, 1)

\* sweep 3 catches json.JSONDecodeError only: an undecodable file raises
ValidateJsonRaises(fs) ==
    \E name \in DataNames : fs[name].exists /\ Undecodable(fs[name].content)

\* sweeps 4 and 5 (missing scripts of HTML pages, lint of the critical files)
\* find nothing in the modelled tree: it holds no HTML page, and no file
\* names a localhost URL
check_resources(fs) == <<>>

static_analysis(fs) == <<>>

\* the Errors scan() returns at time `now`
ScanErrors(fs, log, available, now) ==
    scan_client_errors(log, now) \o syntax_check_js(fs, available)
        \o validate_json_files(fs) \o check_resources(fs) \o static_analysis(fs)

\* the ids of a sequence of Errors
Ids(errs) == {errs[i].id : i \in 1..Len(errs)}

IdSeq(errs) == [i \in 1..Len(errs) |-> errs[i].id]

(***************************************************************************)
(* The start of a process: BlackonnAgent.__init__.                          *)
(***************************************************************************)
\* _load_learned_fixes: the verified records of fix_history.json
RECURSIVE LoadLearned(_)
LoadLearned(history) ==
    IF history = <<>> THEN <<>>
    ELSE (IF Head(history).verified
          THEN <<[error_message |-> "", original |-> Head(history).original,
                  fixed |-> Head(history).fixed]>>
          ELSE <<>>) \o LoadLearned(Tail(history))

NoResult == [op |-> "none", value |-> "none", ids |-> <<>>]

\* no analyze_error has returned yet
NoAnalysis == [can_fix |-> FALSE]

NoHist ==
    [fixEntry |-> Absent, applyEntry |-> Absent, applyBackups |-> {},
     applyRet |-> "none", nodeOut |-> "none", applied |-> 0,
     prevDone |-> FALSE, scans |-> <<>>, tickSeen |-> {}, tickNew |-> <<>>,
     passed |-> <<>>, prevTick |-> <<>>,
     stopSignal |-> FALSE, rebuilds |-> <<>>,
     analysis |-> NoAnalysis, learnedFor |-> {}]

Start ==
    /\ pc = "start"
    /\ memory' = diskMemory
    /\ learned_fixes' = LoadLearned(fixHistory)
    /\ actions' = <<>>
    /\ running' = (mode = "monitor")
    /\ pc' = CASE mode = "fix" -> "scan"
               [] mode = "monitor" -> "mon_head"
               [] mode = "rebuild" -> "rebuild"
    /\ hist' = [hist EXCEPT !.applied = 0]
    /\ UNCHANGED <<api, hub, mode, run, files, edited, clock, work, idx, fix, content,
                   seen, ticks, result, envVars, storeVars>>

(***************************************************************************)
(* scan(), as fix mode and each monitor tick call it.                      *)
(***************************************************************************)
\* what the caller does with the Errors: fix mode fixes them all, the monitor
\* the first BatchCap whose id it has not seen
NewErrors(errs, seenIds) == SelectSeq(errs, LAMBDA e : e.id \notin seenIds)

Batch(errs) == Slice(errs, 1, Min(BatchCap, Len(errs)))

\* a loop without the handler: the exception ends the process
RaiseOut(m) == "crashed"

\* where control goes when an exception leaves scan() or fix(): the monitor
\* loop catches it and backs off, fix mode has no handler
RaiseTo(m) == IF m = "monitor" THEN "mon_backoff" ELSE "crashed"

Scan ==
    /\ pc \in {"scan", "mon_scan"}
    /\ clock' = clock + 1
    /\ memory' = [memory EXCEPT !.scans = @ + 1]
    /\ IF ValidateJsonRaises(files)
       THEN /\ result' = [op |-> "scan", value |-> "raise", ids |-> <<>>]
            /\ pc' = RaiseTo(mode)
            /\ hist' = [hist EXCEPT !.tickSeen = memory.seen_errors,
                                    !.tickNew = <<>>, !.passed = <<>>,
                                    !.prevTick = <<>>]
            /\ UNCHANGED <<work, idx, seen>>
       ELSE LET errs == ScanErrors(files, clientLog, nodeAvailable, clock')
                seen0 == memory.seen_errors
                todo == IF mode = "monitor" THEN Batch(NewErrors(errs, seen0))
                        ELSE errs
            IN  /\ result' = [op |-> "scan", value |-> "found", ids |-> IdSeq(errs)]
                /\ work' = todo
                /\ idx' = 1
                /\ seen' = seen0
                /\ hist' = [hist EXCEPT
                       !.scans = LastN(@ \o <<[ids |-> Ids(errs), files |-> files,
                                               log |-> clientLog]>>, 2),
                       !.tickSeen = seen0,
                       !.tickNew = IdSeq(NewErrors(errs, seen0)),
                       !.passed = <<>>,
                       !.prevTick = IF mode = "monitor" /\ ticks > 1
                                    THEN <<[new |-> hist.tickNew,
                                            passed |-> hist.passed]>>
                                    ELSE <<>>]
                /\ pc' = IF todo # <<>> THEN "fix"
                         ELSE IF mode = "monitor" THEN "mon_sleep" ELSE "done"
    /\ UNCHANGED <<api, hub, mode, run, files, edited, actions, learned_fixes, running,
                   fix, content, ticks, envVars, storeVars>>

(***************************************************************************)
(* fix(error)                                                              *)
(***************************************************************************)
\* no gate: every Fix is handed on
GateOpen(f) == TRUE

\* the gate of fix(): only a Fix this confident is handed to _apply_fix
GatePasses(f) == f.confidence >= MIN_CONFIDENCE

\* read_text(errors='ignore') of the Error's file, None for no such file
FileContent(fs, error) ==
    IF error.file_path # NoPath /\ fs[error.file_path].exists
    THEN DecodeIgnore(fs[error.file_path].content)
    ELSE <<>>

\* the steps of _apply_fix
ApplyPcs == {"apply", "apply_backup", "apply_write", "apply_verify", "apply_log"}

\* what fix() does with the Error short of applying a Fix: the value it
\* returns or raises, the Fix it has synthesized, and where it continues
FixOutcome(error, file_content, analysis, synth) ==
    IF error.message = MsgNotStr
    THEN [value |-> "raise", fix |-> NoFix, pc |-> RaiseTo(mode)]
    ELSE IF ~analysis.can_fix
    THEN [value |-> "cannot_fix", fix |-> NoFix, pc |-> "fix_ret"]
    ELSE IF file_content = <<>>
    THEN [value |-> "no_content", fix |-> NoFix, pc |-> "fix_ret"]
    ELSE IF synth = NoFix
    THEN [value |-> "no_fix", fix |-> NoFix, pc |-> "fix_ret"]
    ELSE IF ~GatePasses(synth)
    THEN [value |-> "low_confidence", fix |-> synth, pc |-> "fix_ret"]
    ELSE [value |-> "applying", fix |-> synth, pc |-> "apply"]

\* analyze_error raises on a message that is no string
Analysis(error, learned) ==
    IF error.message = MsgNotStr THEN NoAnalysis
    ELSE analyze_error(error, learned)

FixError(error, file_content, analysis) ==
    FixOutcome(error, file_content, analysis,
               IF analysis.can_fix /\ file_content # <<>>
               THEN generate_fix(error, file_content, analysis, learned_fixes)
               ELSE NoFix)

FixGoes(out) ==
    /\ result' = [op |-> "fix", value |-> out.value, ids |-> <<>>]
    /\ fix' = out.fix
    /\ pc' = out.pc

FixStart ==
    /\ pc = "fix"
    /\ FixGoes(FixError(work[idx], FileContent(files, work[idx]),
                        Analysis(work[idx], learned_fixes)))
    /\ hist' = [hist EXCEPT
           !.fixEntry = IF work[idx].file_path = NoPath THEN Absent
                        ELSE files[work[idx].file_path],
           !.applyEntry = Absent, !.applyBackups = {}, !.applyRet = "none",
           !.nodeOut = "none",
           !.analysis = Analysis(work[idx], learned_fixes),
           !.passed = IF mode = "monitor" THEN Append(@, work[idx].id) ELSE @]
    /\ UNCHANGED <<api, hub, mode, run, files, edited, clock, memory, actions,
                   learned_fixes, running, work, idx, content, seen, ticks,
                   envVars, storeVars>>

\* a backup that holds nothing
BackupEmpty(path, now, text) ==
    [kind |-> "bak", of |-> path, ts |-> now, content |-> <<>>]

\* the name of the backup carries the second it was made in: a later backup
\* of the same file in the same second replaces it
BackupOf(path, now, text) ==
    [kind |-> "bak", of |-> path, ts |-> now, content |-> text]

\* a check of the file alone, without looking for the original text
CanApplyBlind(target, original) ==
    target.exists /\ ~Undecodable(target.content)

\* the file exists, can be read, and holds the original text
CanApply(target, original) ==
    /\ target.exists
    /\ ~Undecodable(target.content)
    /\ Contains(target.content, original)

ApplyRead ==
    /\ pc = "apply"
    /\ LET target == files[fix.file_path]
           ok == CanApply(target, fix.original)
       IN  /\ content' = IF ok THEN target.content ELSE <<>>
           /\ pc' = IF ok THEN "apply_backup" ELSE "apply_ret"
           /\ hist' = [hist EXCEPT !.applyEntry = target,
                                   !.applyBackups = backups,
                                   !.applyRet = IF ok THEN "none" ELSE "false"]
    /\ UNCHANGED <<api, hub, mode, run, files, edited, clock, memory, actions,
                   learned_fixes, running, work, idx, fix, seen, ticks, result,
                   envVars, storeVars>>

ApplyBackup ==
    /\ pc = "apply_backup"
    /\ backups' = {b \in backups :
                       ~(b.kind = "bak" /\ b.of = fix.file_path /\ b.ts = clock)}
                    \cup {BackupOf(fix.file_path, clock, files[fix.file_path].content)}
    /\ pc' = "apply_write"
    /\ UNCHANGED <<api, hub, mode, run, files, edited, clock, memory, actions,
                   learned_fixes, running, work, idx, fix, content, seen, ticks,
                   result, hist, envVars, diskMemory, fixHistory>>

ApplyWrite ==
    /\ pc = "apply_write"
    /\ files' = [files EXCEPT ![fix.file_path] =
                    File(ReplaceFirst(content, fix.original, fix.fixed))]
    /\ fix' = [fix EXCEPT !.applied = TRUE]
    /\ hist' = [hist EXCEPT !.applied = @ + 1]
    /\ pc' = IF IsJs(fix.file_path) THEN "apply_verify" ELSE "apply_log"
    /\ UNCHANGED <<api, hub, mode, run, edited, clock, memory, actions, learned_fixes,
                   running, work, idx, content, seen, ticks, result, envVars,
                   storeVars>>

\* what the backup made by this _apply_fix holds
BackupContent(path, now) ==
    (CHOOSE b \in backups : b.kind = "bak" /\ b.of = path /\ b.ts = now).content

\* a rollback that restores nothing
RollbackNone(fs, path, text) == fs

\* shutil.copy(backup, file_path)
Rollback(fs, path, text) == [fs EXCEPT ![path] = File(text)]

\* node --check on the written file: a non-zero exit restores the backup, a
\* checker that cannot be run raises into the handler, which restores nothing
ApplyVerify ==
    /\ pc = "apply_verify"
    /\ LET out == NodeCheck(nodeAvailable, files[fix.file_path].content)
       IN  /\ hist' = [hist EXCEPT !.nodeOut = out,
                           !.applyRet = IF out = "ok" THEN "none" ELSE "false"]
           /\ files' = IF out = "fail"
                       THEN Rollback(files, fix.file_path,
                                     BackupContent(fix.file_path, clock))
                       ELSE files
           /\ fix' = IF out = "ok" THEN [fix EXCEPT !.verified = TRUE] ELSE fix
           /\ pc' = IF out = "ok" THEN "apply_log" ELSE "apply_ret"
    /\ UNCHANGED <<api, hub, mode, run, edited, clock, memory, actions, learned_fixes,
                   running, work, idx, content, seen, ticks, result, envVars,
                   storeVars>>

Action(type, target, success, backup) ==
    [type |-> type, target |-> target, success |-> success, backup |-> backup]

ApplyLog ==
    /\ pc = "apply_log"
    /\ actions' = Append(actions, Action("fix_applied", fix.file_path, TRUE, clock))
    /\ hist' = [hist EXCEPT !.applyRet = "true"]
    /\ pc' = "apply_ret"
    /\ UNCHANGED <<api, hub, mode, run, files, edited, clock, memory, learned_fixes,
                   running, work, idx, fix, content, seen, ticks, result,
                   envVars, storeVars>>

\* the record learn_fix keeps in memory
Learned(f) == [error_message |-> "", original |-> f.original, fixed |-> f.fixed]

HistoryCap == 500

\* fix() after _apply_fix has returned
FixFinish ==
    /\ pc = "apply_ret"
    /\ IF hist.applyRet = "true"
       THEN /\ work' = [work EXCEPT ![idx].status = "success"]
            /\ learned_fixes' = IF fix.confidence > 500
                                THEN Append(learned_fixes, Learned(fix))
                                ELSE learned_fixes
            /\ fixHistory' = IF fix.confidence > 500
                             THEN LastN(Append(fixHistory, fix), HistoryCap)
                             ELSE fixHistory
            /\ memory' = [memory EXCEPT !.fixes = @ + 1]
            /\ diskMemory' = memory'
            /\ result' = [op |-> "fix", value |-> "fixed", ids |-> <<>>]
       ELSE /\ result' = [op |-> "fix", value |-> "apply_failed", ids |-> <<>>]
            /\ UNCHANGED <<work, learned_fixes, fixHistory, memory, diskMemory>>
    /\ hist' = [hist EXCEPT !.learnedFor =
                    IF hist.applyRet = "true" /\ fix.confidence > 500 /\ fix.verified
                    THEN @ \cup {work[idx].message} ELSE @]
    /\ pc' = "fix_ret"
    /\ UNCHANGED <<api, hub, mode, run, files, edited, clock, actions, running, idx, fix,
                   content, seen, ticks, envVars, backups>>

\* the caller's loop: after fix() has returned, the next Error or the end
FixReturn ==
    /\ pc = "fix_ret"
    /\ seen' = IF mode = "monitor" THEN seen \cup {work[idx].id} ELSE seen
    /\ IF idx < Len(work)
       THEN idx' = idx + 1 /\ pc' = "fix"
       ELSE idx' = idx /\ pc' = IF mode = "monitor" THEN "mon_update" ELSE "done"
    /\ UNCHANGED <<api, hub, mode, run, files, edited, clock, memory, actions,
                   learned_fixes, running, work, fix, content, ticks, result,
                   hist, envVars, storeVars>>


(***************************************************************************)
(* A change of the target file by someone else, between the synthesis of   *)
(* the Fix and _apply_fix's read of the file.                              *)
(***************************************************************************)
OtherText == <<"c">>

EnvEdit ==
    /\ pc = "apply"
    /\ ~edited
    /\ edited' = TRUE
    /\ \E f \in {Absent, File(OtherText)} :
          files' = [files EXCEPT ![fix.file_path] = f]
    /\ UNCHANGED <<api, hub, mode, pc, run, clock, memory, actions, learned_fixes,
                   running, work, idx, fix, content, seen, ticks, result, hist,
                   envVars, storeVars>>

(***************************************************************************)
(* monitor()                                                               *)
(***************************************************************************)
\* the steps inside the try block of the loop
TryPcs == {"mon_scan", "fix", "apply_ret", "fix_ret", "mon_update", "mon_sleep"}
              \cup ApplyPcs

\* while self.running
MonHead ==
    /\ pc = "mon_head"
    /\ running => ticks < MaxTicks
    /\ IF running
       THEN pc' = "mon_scan" /\ ticks' = ticks + 1
       ELSE pc' = "mon_exit" /\ ticks' = ticks
    /\ UNCHANGED <<api, hub, mode, run, files, edited, clock, memory, actions,
                   learned_fixes, running, work, idx, fix, content, seen,
                   result, hist, envVars, storeVars>>

RECURSIVE KSubsets(_, _)
\* the subsets of S that have k elements
KSubsets(S, k) ==
    IF k = 0 THEN {{}}
    ELSE UNION {{T \cup {x} : T \in KSubsets(S \ {x}, k - 1)} : x \in S}

\* list(seen)[-500:]: the order of a set's elements is not that of insertion,
\* so the elements cut off at the front of the list are any of the set
CapSeen(ids) ==
    IF Cardinality(ids) <= SeenCap THEN {ids}
    ELSE {ids \ cut : cut \in KSubsets(ids, Cardinality(ids) - SeenCap)}

\* the end of a tick that had new Errors: seen_errors is stored and saved
MonUpdate ==
    /\ pc = "mon_update"
    /\ \E kept \in CapSeen(seen) :
          memory' = [memory EXCEPT !.seen_errors = kept]
    /\ diskMemory' = memory'
    /\ pc' = "mon_sleep"
    /\ UNCHANGED <<api, hub, mode, run, files, edited, clock, actions, learned_fixes,
                   running, work, idx, fix, content, seen, ticks, result, hist,
                   envVars, fixHistory, backups>>

\* time.sleep(MONITOR_INTERVAL)
MonSleep ==
    /\ pc = "mon_sleep"
    /\ pc' = "mon_head"
    /\ UNCHANGED <<api, hub, mode, run, files, edited, clock, memory, actions,
                   learned_fixes, running, work, idx, fix, content, seen, ticks,
                   result, hist, envVars, storeVars>>

\* except Exception: the message is printed, then time.sleep(5)
MonBackoff ==
    /\ pc = "mon_backoff"
    /\ pc' = "mon_head"
    /\ UNCHANGED <<api, hub, mode, run, files, edited, clock, memory, actions,
                   learned_fixes, running, work, idx, fix, content, seen, ticks,
                   result, hist, envVars, storeVars>>

\* Ctrl-C: inside the try block the loop's handler clears `running`; during
\* the handler's own sleep nothing catches it
KeyboardInterrupt ==
    /\ mode = "monitor"
    /\ pc \in TryPcs \cup {"mon_backoff"}
    /\ running' = IF pc \in TryPcs THEN FALSE ELSE running
    /\ pc' = IF pc \in TryPcs THEN "mon_head" ELSE "mon_exit"
    /\ hist' = [hist EXCEPT !.stopSignal = TRUE]
    /\ UNCHANGED <<api, hub, mode, run, files, edited, clock, memory, actions,
                   learned_fixes, work, idx, fix, content, seen, ticks, result,
                   envVars, storeVars>>

\* stop(), called from another thread
Stop ==
    /\ mode = "monitor"
    /\ pc \notin {"start", "mon_exit"}
    /\ running
    /\ running' = FALSE
    /\ hist' = [hist EXCEPT !.stopSignal = TRUE]
    /\ UNCHANGED <<api, hub, mode, pc, run, files, edited, clock, memory, actions,
                   learned_fixes, work, idx, fix, content, seen, ticks, result,
                   envVars, storeVars>>

(***************************************************************************)
(* rebuild()                                                               *)
(***************************************************************************)
\* the directories rebuild() makes sure of, in its order
RebuildDirs ==
    <<"data", "logs", "uploads", "uploads/products", "uploads/slides",
      "uploads/users", "agent_data">>

\* db_defaults without its last entry
DbOrderShort ==
    <<"users.json", "products.json", "orders.json", "carts.json",
      "sessions.json", "slides.json", "wishlists.json", "contacts.json">>

\* db_defaults, in its order
DbOrder ==
    <<"users.json", "products.json", "orders.json", "carts.json",
      "sessions.json", "slides.json", "wishlists.json", "contacts.json",
      "adminSettings.json">>

AdminDefault ==
    <<"{", NL, " ", " ", "\"", "s", "i", "t", "e", "N", "a", "m", "e", "\"",
        ":", " ", "\"", "B", "L", "A", "C", "K", "O", "N", "N", "\"", ",", NL,
        " ", " ", "\"", "m", "a", "i", "n", "t", "e", "n", "a", "n", "c", "e",
        "\"", ":", " ", "f", "a", "l", "s", "e", NL, "}">>

\* json.dumps(default, indent=2)
DefaultContent(name) ==
    CASE name \in {"carts.json", "sessions.json", "wishlists.json"} -> <<"{", "}">>
      [] name = "adminSettings.json" -> AdminDefault
      [] OTHER -> <<"[", "]">>

\* the file a corrupt data file is moved to
Quarantined(name, now, text) ==
    [kind |-> "corrupted", of |-> name, ts |-> now, content |-> text]

RECURSIVE RepairDbs(_, _, _, _, _)
\* step 2 from the i-th data file on; only a JSONDecodeError is handled
RepairDbs(fs, bks, acts, now, i) ==
    IF i > Len(DbOrder)
    THEN [files |-> fs, backups |-> bks, actions |-> acts, raised |-> FALSE]
    ELSE LET name == DbOrder[i]
             f    == fs[name]
         IN  IF ~f.exists
             THEN RepairDbs([fs EXCEPT ![name] = File(DefaultContent(name))], bks,
                            Append(acts, "Created: " \o name), now, i + 1)
             ELSE IF Undecodable(f.content)
             THEN [files |-> fs, backups |-> bks, actions |-> acts, raised |-> TRUE]
             ELSE IF ParsesJson(f.content)
             THEN RepairDbs(fs, bks, acts, now, i + 1)
             ELSE RepairDbs([fs EXCEPT ![name] = File(DefaultContent(name))],
                            {b \in bks : ~(b.kind = "corrupted" /\ b.of = name
                                           /\ b.ts = now)}
                                \cup {Quarantined(name, now, f.content)},
                            Append(acts, "Repaired: " \o name), now, i + 1)

\* step 1: an action for every directory that was missing
CreatedDirs(have) ==
    LET missing == SelectSeq(RebuildDirs, LAMBDA d : d \notin have)
    IN  [i \in 1..Len(missing) |-> "Created: " \o missing[i]]

\* a log left as it is
KeptLog(log) == log

\* step 3: a log of more than 1 MB is overwritten with "[]"
ClearedLog(log) == [exists |-> TRUE, big |-> FALSE, entries |-> <<>>]

Rebuild ==
    /\ pc = "rebuild"
    /\ LET made == CreatedDirs(dirs)
           r    == RepairDbs(files, backups, made, clock, 1)
           big  == clientLog.exists /\ clientLog.big
           acts == IF big THEN Append(r.actions, "Cleared: client-errors.json")
                   ELSE r.actions
       IN  /\ dirs' = dirs \cup {RebuildDirs[i] : i \in 1..Len(RebuildDirs)}
           /\ files' = r.files
           /\ backups' = r.backups
           /\ clientLog' = IF ~r.raised /\ big THEN ClearedLog(clientLog)
                           ELSE clientLog
           /\ result' = [op |-> "rebuild",
                         value |-> IF r.raised THEN "raise" ELSE "done",
                         ids |-> <<>>]
           /\ pc' = IF r.raised THEN "crashed" ELSE "done"
           /\ hist' = [hist EXCEPT !.rebuilds =
                         LastN(Append(@, [completed |-> ~r.raised,
                                          dirs |-> dirs, files |-> files,
                                          log |-> clientLog,
                                          total |-> Len(acts),
                                          changed |-> \/ dirs' # dirs
                                                      \/ files' # files
                                                      \/ backups' # backups
                                                      \/ clientLog' # clientLog]),
                               2)]
    /\ UNCHANGED <<api, hub, mode, run, edited, clock, nodeAvailable, memory, diskMemory,
                   actions, learned_fixes, fixHistory, running, work, idx, fix,
                   content, seen, ticks>>

(***************************************************************************)
(* The next invocation of the command, after the process has ended.        *)
(***************************************************************************)
NextRun ==
    /\ pc \in {"done", "crashed"}
    /\ run < MaxRuns
    /\ run' = run + 1
    /\ pc' = "start"
    /\ work' = <<>>
    /\ idx' = 0
    /\ fix' = NoFix
    /\ content' = <<>>
    /\ result' = NoResult
    /\ hist' = [hist EXCEPT !.prevDone = (pc = "done"), !.fixEntry = Absent,
                            !.applyEntry = Absent, !.applyBackups = {},
                            !.applyRet = "none", !.nodeOut = "none"]
    /\ UNCHANGED <<api, hub, mode, files, edited, clock, memory, actions, learned_fixes,
                   running, seen, ticks, envVars, storeVars>>


(***************************************************************************)
(* The AI hub (ai_hub.py): EngineLoader.load_engine and                    *)
(* AIHub.route_request, one request per process.                           *)
(***************************************************************************)
\* EngineLoader.engine_files: the engines the loader knows
HubEngines ==
    {"analysis", "analytics", "image", "fraud", "email", "search", "recommend",
     "price", "payment", "health", "neural", "emotion", "performance",
     "errors", "ml", "security", "realtime", "seo", "sales"}

\* the engines of the three blocks that come before the if/elif chain
EagerEngines == {"recommend", "neural", "fraud"}

\* the tasks those blocks hand to the engine; the fraud block tests no task
EagerTasks(engine_name) ==
    CASE engine_name = "recommend" -> {"recommend", "content"}
      [] engine_name = "neural"    -> {"intent", "optimize"}
      [] OTHER                     -> {}

\* the tasks the branch of the if/elif chain hands to the engine
ChainTasks(engine_name) ==
    CASE engine_name = "analytics" ->
            {"rfm", "cohort", "forecast", "product-performance", "ab-test"}
      [] engine_name = "fraud"  -> {"analyze", "batch", "stats"}
      [] engine_name = "search" -> {"search", "autocomplete", "index", "trending"}
      [] engine_name = "recommend" ->
            {"similar", "collaborative", "trending", "together", "personalized"}
      [] engine_name = "price" ->
            {"optimize", "bundle", "clearance", "seasonal", "margin"}
      [] engine_name = "image"   -> {"check", "optimize", "thumbnail", "analyze"}
      [] engine_name = "payment" -> {"verify", "batch", "refund-risk"}
      [] engine_name = "health" ->
            {"full", "check", "system", "ai", "engines", "diagnose", "debug",
             "logs"}
      [] engine_name = "analysis" ->
            {"insights", "sentiment", "recommend", "predict-stock", "seo-audit",
             "security-scan", "train", "predict-intent", "seo-keywords"}
      [] engine_name = "neural" ->
            {"intent", "placement", "pricing", "journey", "churn"}
      [] engine_name = "emotion" ->
            {"sentiment", "feedback", "intent", "empathy", "reviews"}
      [] engine_name = "performance" ->
            {"analyze", "queries", "cache", "loadtest", "metrics"}
      [] engine_name = "errors" -> {"track", "trends", "report", "resolve"}
      [] engine_name = "ml" ->
            {"predict", "train", "info", "sales", "segment", "demand",
             "anomaly", "trend"}
      [] engine_name = "security" ->
            {"analyze", "traffic", "scan", "brute-force", "report"}
      [] engine_name = "realtime" ->
            {"metric", "stats", "users", "conversions", "inventory",
             "dashboard"}
      [] engine_name = "seo" ->
            {"analyze", "keywords", "meta", "audit", "optimize"}
      [] engine_name = "sales" -> {"insights", "forecast", "compare"}
      [] OTHER -> {}

\* load_engine: None for an unknown engine or a missing file, the module for
\* a file that can be executed; exec_module raises for one that cannot
load_engine(engine_name, file) ==
    IF engine_name \notin HubEngines \/ file = "missing" THEN "none"
    ELSE IF file = "broken" THEN "raise"
    ELSE "module"

\* the blocks before the chain use the module untested: module.X() raises
\* AttributeError on None; "next" when the block is left without a return
RouteEager(engine_name, task, module, call) ==
    IF engine_name \notin EagerEngines THEN "next"
    ELSE IF module # "module" THEN "raise"
    ELSE IF engine_name = "fraud" \/ task \in EagerTasks(engine_name) THEN call
    ELSE "next"

\* the if/elif chain and the return that follows it; the email branch hands
\* every task to generate_email
RouteChain(engine_name, task, module, call) ==
    IF engine_name \notin HubEngines THEN "error"
    ELSE IF module = "raise" THEN "raise"
    ELSE IF module = "none" THEN "error"
    ELSE IF engine_name = "email" \/ task \in ChainTasks(engine_name) THEN call
    ELSE "error"

\* what the first part yields, else what the chain yields
RouteThen(eager, chain) == IF eager # "next" THEN eager ELSE chain

\* route_request: "error" for a dict with an "error" key made by the hub,
\* "raise" for an exception, else `call`, what the engine's method did with
\* the data ("result" or "raise")
route_request(engine_name, task, file, call) ==
    RouteThen(RouteEager(engine_name, task, load_engine(engine_name, file), call),
              RouteChain(engine_name, task, load_engine(engine_name, file), call))

NoRequest == [engine_name |-> "", task |-> "", file |-> "ok", ret |-> "none"]

\* the hub serves the request of its command line
RouteRequest ==
    /\ mode = "hub"
    /\ pc = "hub"
    /\ \E call \in {"result", "raise"} :
          hub' = [hub EXCEPT !.ret = route_request(hub.engine_name, hub.task,
                                                   hub.file, call)]
    /\ pc' = "hub_done"
    /\ UNCHANGED <<api, mode, run, files, edited, clock, memory, actions,
                   learned_fixes, running, work, idx, fix, content, seen, ticks,
                   result, hist, envVars, storeVars>>

(***************************************************************************)
(* The API server (create_api): POST /agent/fix, handled by one thread per *)
(* request.  Each handler runs scan() and then fix() on the first Errors;  *)
(* the threads share the agent, the files and the backups, and nothing     *)
(* keeps the steps of two handlers apart.                                  *)
(***************************************************************************)
\* two requests that arrive together
Requests == {"r1", "r2"}

\* a handler that has not started: its locals
NoThread ==
    [pc |-> "scan", work |-> <<>>, idx |-> 0, fix |-> NoFix, content |-> <<>>,
     backup |-> 0, ret |-> "none", node |-> "none", overlap |-> FALSE]

NoApi == [r \in Requests |-> NoThread]

\* the handler is inside fix(), past the synthesis of its Fix
InFix(at) == at \in ApplyPcs \cup {"apply_ret"}

\* whether the fix() call of each request has run while the other request
\* was inside a fix() call on the same file
Overlap(a) ==
    [r \in Requests |->
        [a[r] EXCEPT !.overlap =
            \/ @
            \/ /\ \A q \in Requests : InFix(a[q].pc)
               /\ \A q \in Requests : a[q].fix.file_path = a[r].fix.file_path]]

\* what an API step leaves alone: the state of the command-line modes
apiFrame == <<mode, pc, run, edited, running, work, idx, fix, content, seen,
              ticks, result, hub, hist, envVars>>

\* errors = agent.scan()
ApiScan(r) ==
    /\ mode = "api"
    /\ api[r].pc = "scan"
    /\ clock' = clock + 1
    /\ memory' = [memory EXCEPT !.scans = @ + 1]
    /\ LET errs == IF ValidateJsonRaises(files) THEN <<>>
                   ELSE Batch(ScanErrors(files, clientLog, nodeAvailable, clock'))
       IN  api' = Overlap([api EXCEPT ![r].work = errs, ![r].idx = 1,
                               ![r].pc = IF errs = <<>> THEN "done" ELSE "fix"])
    /\ UNCHANGED <<files, actions, learned_fixes, apiFrame, storeVars>>

\* agent.fix(error) up to the call of _apply_fix; an exception ends the request
ApiFixStart(r) ==
    /\ mode = "api"
    /\ api[r].pc = "fix"
    /\ LET error == api[r].work[api[r].idx]
           out == FixError(error, FileContent(files, error),
                           Analysis(error, learned_fixes))
       IN  api' = Overlap([api EXCEPT ![r].fix = out.fix,
                               ![r].ret = "none", ![r].node = "none",
                               ![r].overlap = FALSE,
                               ![r].pc = IF out.value = "raise" THEN "done"
                                         ELSE out.pc])
    /\ UNCHANGED <<files, clock, memory, actions, learned_fixes, apiFrame,
                   storeVars>>

ApiApplyRead(r) ==
    /\ mode = "api"
    /\ api[r].pc = "apply"
    /\ LET target == files[api[r].fix.file_path]
           ok == CanApply(target, api[r].fix.original)
       IN  api' = Overlap([api EXCEPT
                      ![r].content = IF ok THEN target.content ELSE <<>>,
                      ![r].ret = IF ok THEN "none" ELSE "false",
                      ![r].pc = IF ok THEN "apply_backup" ELSE "apply_ret"])
    /\ UNCHANGED <<files, clock, memory, actions, learned_fixes, apiFrame,
                   storeVars>>

\* the backup's name carries the second: the handler keeps the name
ApiApplyBackup(r) ==
    /\ mode = "api"
    /\ api[r].pc = "apply_backup"
    /\ LET path == api[r].fix.file_path
       IN  backups' = {b \in backups :
                          ~(b.kind = "bak" /\ b.of = path /\ b.ts = clock)}
                      \cup {BackupOf(path, clock, files[path].content)}
    /\ api' = Overlap([api EXCEPT ![r].backup = clock, ![r].pc = "apply_write"])
    /\ UNCHANGED <<files, clock, memory, actions, learned_fixes, apiFrame,
                   diskMemory, fixHistory>>

ApiApplyWrite(r) ==
    /\ mode = "api"
    /\ api[r].pc = "apply_write"
    /\ LET f == api[r].fix
       IN  /\ files' = [files EXCEPT ![f.file_path] =
                           File(ReplaceFirst(api[r].content, f.original, f.fixed))]
           /\ api' = Overlap([api EXCEPT ![r].fix.applied = TRUE,
                                   ![r].pc = IF IsJs(f.file_path)
                                             THEN "apply_verify" ELSE "apply_log"])
    /\ UNCHANGED <<clock, memory, actions, learned_fixes, apiFrame, storeVars>>

\* node --check on the file as it is now; a failure restores the handler's
\* backup file as it is now
ApiApplyVerify(r) ==
    /\ mode = "api"
    /\ api[r].pc = "apply_verify"
    /\ LET path == api[r].fix.file_path
           out == NodeCheck(nodeAvailable, files[path].content)
       IN  /\ files' = IF out = "fail"
                       THEN Rollback(files, path,
                                     BackupContent(path, api[r].backup))
                       ELSE files
           /\ api' = Overlap([api EXCEPT
                          ![r].node = out,
                          ![r].ret = IF out = "ok" THEN "none" ELSE "false",
                          ![r].fix.verified = (out = "ok"),
                          ![r].pc = IF out = "ok" THEN "apply_log"
                                    ELSE "apply_ret"])
    /\ UNCHANGED <<clock, memory, actions, learned_fixes, apiFrame, storeVars>>

ApiApplyLog(r) ==
    /\ mode = "api"
    /\ api[r].pc = "apply_log"
    /\ actions' = Append(actions, Action("fix_applied", api[r].fix.file_path,
                                         TRUE, api[r].backup))
    /\ api' = Overlap([api EXCEPT ![r].ret = "true", ![r].pc = "apply_ret"])
    /\ UNCHANGED <<files, clock, memory, learned_fixes, apiFrame, storeVars>>

\* fix() after _apply_fix has returned, up to its own return
ApiFixFinish(r) ==
    /\ mode = "api"
    /\ api[r].pc = "apply_ret"
    /\ LET f == api[r].fix
           learn == api[r].ret = "true" /\ f.confidence > 500
       IN  /\ learned_fixes' = IF learn THEN Append(learned_fixes, Learned(f))
                               ELSE learned_fixes
           /\ fixHistory' = IF learn THEN LastN(Append(fixHistory, f), HistoryCap)
                            ELSE fixHistory
           /\ memory' = IF api[r].ret = "true"
                        THEN [memory EXCEPT !.fixes = @ + 1] ELSE memory
           /\ diskMemory' = IF api[r].ret = "true" THEN memory' ELSE diskMemory
    /\ api' = Overlap([api EXCEPT
                   ![r].work[api[r].idx].status =
                       IF api[r].ret = "true" THEN "success" ELSE @,
                   ![r].pc = "fix_ret"])
    /\ UNCHANGED <<files, clock, actions, apiFrame, backups>>

\* for error in errors[:5]: the next Error, or the response
ApiFixReturn(r) ==
    /\ mode = "api"
    /\ api[r].pc = "fix_ret"
    /\ api' = Overlap([api EXCEPT
                   ![r].idx = IF @ < Len(api[r].work) THEN @ + 1 ELSE @,
                   ![r].pc = IF api[r].idx < Len(api[r].work) THEN "fix"
                             ELSE "done"])
    /\ UNCHANGED <<files, clock, memory, actions, learned_fixes, apiFrame,
                   storeVars>>

(***************************************************************************)
(* The initial states: a project tree, a client-error log and a mode.      *)
(***************************************************************************)
\* the lines a JavaScript file is made of
LinePool == {<<"a", ".", "b">>, <<"a", "{">>, <<"}">>}

JsPool == {Join(ls) : ls \in UNION {[1..n -> LinePool] : n \in 1..MaxLines}}

\* a file with a byte that is no UTF-8
BadText == <<"a", ".", "b", NL, BadByte>>

\* a file of four equal lines: the three lines of context around its first
\* line occur in it twice
RepeatText == Join([i \in 1..4 |-> <<"a", ".", "b">>])

\* a file of six lines, the fourth of which holds the property access: it
\* has three lines before it and two after it
ContextText ==
    Join(<<<<"c">>, <<"b">>, <<"1">>, <<"a", ".", "b">>, <<"c">>, <<"b">>>>)

\* a log entry as the front end writes it; id "" for an entry without the key
Entry(id, message, source, line) ==
    [id |-> id, message |-> message, source |-> source, line |-> line]

Log(entries) == [exists |-> TRUE, big |-> FALSE, entries |-> entries]

NoLog == [exists |-> FALSE, big |-> FALSE, entries |-> <<>>]

AllDirs == {RebuildDirs[i] : i \in 1..Len(RebuildDirs)}

NoFiles == [p \in Paths |-> Absent]

EmptyMemory == [seen_errors |-> {}, fixes |-> 0, scans |-> 0]

\* what every first invocation starts from
InitProcess ==
    /\ run = 1
    /\ clock = 0
    /\ edited = FALSE
    /\ memory = EmptyMemory
    /\ actions = <<>>
    /\ learned_fixes = <<>>
    /\ fixHistory = <<>>
    /\ running = FALSE
    /\ backups = {}
    /\ work = <<>>
    /\ idx = 0
    /\ fix = NoFix
    /\ content = <<>>
    /\ seen = {}
    /\ ticks = 0
    /\ result = NoResult
    /\ hist = NoHist
    /\ api = NoApi

\* the reports the front end files about main.js
JsReports ==
    {[message |-> MsgNullRef, source |-> JsFile, line |-> 1],
     [message |-> MsgNullRef, source |-> JsFile, line |-> 4],
     [message |-> MsgSyntax, source |-> JsFile, line |-> 1],
     [message |-> MsgSyntax, source |-> JsFile, line |-> 0],
     [message |-> MsgScript, source |-> NoPath, line |-> 0],
     [message |-> MsgEmpty, source |-> JsFile, line |-> 1],
     [message |-> MsgNotStr, source |-> NoPath, line |-> 0]}

\* the reports about a data file
JsonReports ==
    {[message |-> MsgJsonToken, source |-> "orders.json", line |-> 1],
     [message |-> MsgJsonToken, source |-> "orders.json", line |-> 0]}

\* fix mode over a JavaScript file and the reports about it
InitFixJs ==
    /\ mode = "fix"
    /\ dirs = AllDirs
    /\ nodeAvailable \in BOOLEAN
    /\ \E js \in JsPool \cup {BadText, RepeatText, ContextText}, n \in 0..MaxLog :
       \E rs \in [1..n -> JsReports] :
          /\ n <= 1 \/ Len(Split(js)) <= 1
          /\ \A i \in 1..n : rs[i].line <= Len(Split(js))
          /\ files = [NoFiles EXCEPT ![JsFile] = File(js)]
          /\ clientLog = Log([i \in 1..n |->
                                Entry("e" \o ToString(i), rs[i].message,
                                      rs[i].source, rs[i].line)])

JsonPool == {<<"[", "1", "]">>, <<"[", "1", ",", "]">>,
             <<"{", "\"", "a", "\"", ":", "1", ",", NL, "}">>}

\* fix mode over a data file and the reports about it
InitFixJson ==
    /\ mode = "fix"
    /\ dirs = AllDirs
    /\ nodeAvailable = TRUE
    /\ \E js \in JsonPool, n \in 0..MaxLog :
       \E rs \in [1..n -> JsonReports] :
          /\ files = [NoFiles EXCEPT !["orders.json"] = File(js)]
          /\ clientLog = Log([i \in 1..n |->
                                Entry("e" \o ToString(i), rs[i].message,
                                      rs[i].source, rs[i].line)])

\* the entry of a monitor log that differs from the others
OddEntry(kind, i) ==
    CASE kind = "notstr"  -> Entry("e" \o ToString(i), MsgNotStr, NoPath, 0)
      [] kind = "noid"    -> Entry("", MsgScript, NoPath, 0)
      [] kind = "nullref" -> Entry("e" \o ToString(i), MsgNullRef, JsFile, 1)

\* monitor mode over a log of reports nothing can be done about, but one
InitMonitor ==
    /\ mode = "monitor"
    /\ dirs = AllDirs
    /\ nodeAvailable = TRUE
    /\ \E bad \in BOOLEAN :
          files = [NoFiles EXCEPT ![JsFile] = File(<<"a", ".", "b">>),
                                  !["orders.json"] =
                                      IF bad THEN File(<<BadByte>>) ELSE Absent]
    /\ \E n \in 0..MaxMonLog, p \in 0..MaxMonLog,
          kind \in {"notstr", "noid", "nullref"} :
          /\ p <= n
          /\ p = 0 => kind = "noid"
          /\ clientLog = Log([i \in 1..n |->
                                IF i = p THEN OddEntry(kind, i)
                                ELSE Entry("e" \o ToString(i), MsgScript, NoPath, 0)])

\* the ids of Errors that earlier runs of the monitor have processed
OldIds == {"s" \o ToString(i) : i \in 1..SeenCap}

\* agent_memory.json after those runs: seen_errors is at its cap
FullMemory == [seen_errors |-> OldIds, fixes |-> 0, scans |-> 0]

\* monitor mode with a full seen_errors and one report not seen before
InitMonitorFull ==
    /\ mode = "monitor"
    /\ dirs = AllDirs
    /\ nodeAvailable = TRUE
    /\ files = [NoFiles EXCEPT ![JsFile] = File(<<"a", ".", "b">>)]
    /\ clientLog = Log(<<Entry("e1", MsgScript, NoPath, 0)>>)
    /\ diskMemory = FullMemory

\* a file with a block and a property access after it
BlockText == Join(<<<<"a", "{">>, <<"}">>, <<"a", ".", "b">>>>)

\* the API server over a file and two reports about it: a syntax error at
\* the line that opens the block and a null reference at the last line
InitApi ==
    /\ mode = "api"
    /\ dirs = AllDirs
    /\ nodeAvailable = TRUE
    /\ files = [NoFiles EXCEPT ![JsFile] = File(BlockText)]
    /\ clientLog = Log(<<Entry("e1", MsgSyntax, JsFile, 1),
                         Entry("e2", MsgNullRef, JsFile, 3)>>)

\* the states a data file can be found in
OddFiles == {Absent, File(<<"[", "1", ",", "]">>), File(<<BadByte>>),
             File(<<"1">>)}

\* rebuild mode over a tree with directories and data files missing or damaged
InitRebuild ==
    /\ mode = "rebuild"
    /\ nodeAvailable = TRUE
    /\ \E data \in BOOLEAN, logs \in BOOLEAN, up \in 0..2 :
          /\ dirs = {"agent_data"}
                \cup (IF data THEN {"data"} ELSE {})
                \cup (IF logs THEN {"logs"} ELSE {})
                \cup (IF up >= 1 THEN {"uploads"} ELSE {})
                \cup (IF up = 2 THEN {"uploads/products", "uploads/slides",
                                      "uploads/users"} ELSE {})
          /\ \E there \in BOOLEAN, odd \in SUBSET DataNames :
                /\ Cardinality(odd) <= MaxOdd
                /\ ~data => ~there
                /\ odd # {} => data /\ logs /\ up = 2
                /\ \E how \in [odd -> OddFiles] :
                      files = [p \in Paths |->
                                 IF p \in odd /\ data THEN how[p]
                                 ELSE IF p \in DataNames /\ there
                                 THEN File(DefaultContent(p))
                                 ELSE Absent]
          /\ \E log \in {NoLog, Log(<<>>),
                         [exists |-> TRUE, big |-> TRUE,
                          entries |-> <<Entry("e1", MsgScript, NoPath, 0)>>]} :
                /\ ~logs => log = NoLog
                /\ clientLog = log

\* the tasks any engine knows, and one that none knows
HubTasks ==
    UNION {EagerTasks(e) \cup ChainTasks(e) : e \in HubEngines} \cup {"nosuch"}

\* the hub's process: a request for an engine, known or not, whose file is
\* there, is missing or cannot be executed
InitHub ==
    /\ mode = "hub"
    /\ dirs = AllDirs
    /\ nodeAvailable = TRUE
    /\ files = NoFiles
    /\ clientLog = NoLog
    /\ \E e \in HubEngines \cup {"nosuch"}, t \in HubTasks,
          f \in {"ok", "missing", "broken"} :
          hub = [engine_name |-> e, task |-> t, file |-> f, ret |-> "none"]

Init ==
    \/ /\ InitProcess
       /\ pc = "start"
       /\ hub = NoRequest
       /\ diskMemory = EmptyMemory
       /\ \/ InitFixJs
          \/ InitFixJson
          \/ InitMonitor
          \/ InitRebuild
    \/ /\ InitProcess
       /\ pc = "start"
       /\ hub = NoRequest
       /\ InitMonitorFull
    \/ /\ InitProcess
       /\ pc = "hub"
       /\ diskMemory = EmptyMemory
       /\ InitHub
    \/ /\ InitProcess
       /\ pc = "api"
       /\ hub = NoRequest
       /\ diskMemory = EmptyMemory
       /\ InitApi

Next ==
    \/ Start
    \/ Scan
    \/ FixStart
    \/ EnvEdit
    \/ ApplyRead
    \/ ApplyBackup
    \/ ApplyWrite
    \/ ApplyVerify
    \/ ApplyLog
    \/ FixFinish
    \/ FixReturn
    \/ MonHead
    \/ MonUpdate
    \/ MonSleep
    \/ MonBackoff
    \/ KeyboardInterrupt
    \/ Stop
    \/ Rebuild
    \/ NextRun
    \/ RouteRequest
    \/ \E r \in Requests : ApiScan(r)
    \/ \E r \in Requests : ApiFixStart(r)
    \/ \E r \in Requests : ApiApplyRead(r)
    \/ \E r \in Requests : ApiApplyBackup(r)
    \/ \E r \in Requests : ApiApplyWrite(r)
    \/ \E r \in Requests : ApiApplyVerify(r)
    \/ \E r \in Requests : ApiApplyLog(r)
    \/ \E r \in Requests : ApiFixFinish(r)
    \/ \E r \in Requests : ApiFixReturn(r)

Spec == Init /\ [][Next]_vars


(***************************************************************************)
(* Properties.                                                             *)
(***************************************************************************)
\* C1 (rollback integrity): when _apply_fix has returned from a call on a .js
\* file whose syntax check after the write exited non-zero, the file is what
\* it was when _apply_fix was entered, the call has returned False and
\* fix.verified is False.
RollbackIntegrity ==
    pc = "apply_ret" /\ hist.nodeOut = "fail" =>
        /\ files[fix.file_path] = hist.applyEntry
        /\ hist.applyRet = "false"
        /\ ~fix.verified

\* a rollback has happened: the file was written, the check failed
RollbackHappened ==
    /\ pc = "apply_ret"
    /\ hist.nodeOut = "fail"
    /\ fix.applied
    /\ IsJs(fix.file_path)

\* C2 (confidence gate): a Fix is inside _apply_fix only if its confidence is
\* at least MIN_CONFIDENCE, and a synthesized Fix that fix() returns without
\* having handed it to _apply_fix has a confidence below MIN_CONFIDENCE and
\* has not changed the file.
ConfidenceGate ==
    /\ pc \in ApplyPcs \cup {"apply_ret"} =>
          fix # NoFix /\ fix.confidence >= MIN_CONFIDENCE
    /\ pc = "fix_ret" /\ fix # NoFix /\ hist.applyRet = "none" =>
          /\ fix.confidence < MIN_CONFIDENCE
          /\ ~fix.applied
          /\ files[fix.file_path] = hist.fixEntry

\* a Fix from the full-file fallback has been turned away by the gate
GateRejected ==
    /\ pc = "fix_ret"
    /\ fix # NoFix
    /\ fix.confidence < MIN_CONFIDENCE
    /\ result.value = "low_confidence"

\* C3 (apply precondition): when the file did not exist or did not hold
\* fix.original as _apply_fix ran, _apply_fix has returned False, the file
\* is as it was, no backup has been added and fix.applied is False.
ApplyPrecondition ==
    /\ pc = "apply_ret"
    /\ \/ ~hist.applyEntry.exists
       \/ ~Contains(hist.applyEntry.content, fix.original)
    => /\ hist.applyRet = "false"
       /\ files[fix.file_path] = hist.applyEntry
       /\ backups = hist.applyBackups
       /\ ~fix.applied

\* the file was changed after the synthesis and no longer holds the original
OriginalGone ==
    /\ pc = "apply_ret"
    /\ edited
    /\ hist.applyEntry.exists
    /\ ~Contains(hist.applyEntry.content, fix.original)

\* C4 (per-Error lifecycle): when fix(error) has returned, error.status is
\* SKIPPED, SUCCESS or FAILED.
TerminalStatus ==
    pc = "fix_ret" => work[idx].status \in {"skipped", "success", "failed"}

\* C5 (SUCCESS means applied and verified): an Error whose status is SUCCESS
\* has a Fix with applied and verified both True, whatever the file.
SuccessIsVerified ==
    pc = "fix_ret" /\ work[idx].status = "success" =>
        fix.applied /\ fix.verified

RebuildIdempotent ==
    Len(hist.rebuilds) = 2 /\ hist.rebuilds[1].completed =>
        /\ hist.rebuilds[2].completed
        /\ hist.rebuilds[2].total = 0
        /\ ~hist.rebuilds[2].changed

\* a second rebuild after a first one that had something to do
RebuiltTwice ==
    /\ Len(hist.rebuilds) = 2
    /\ hist.rebuilds[1].completed
    /\ hist.rebuilds[1].total > 0
    /\ hist.rebuilds[1].changed

\* C8 (deduplication): two scans of the same files and the same client-error
\* log return Errors with the same set of ids.
ScanIdsRepeat ==
    /\ Len(hist.scans) = 2
    /\ hist.scans[1].files = hist.scans[2].files
    /\ hist.scans[1].log = hist.scans[2].log
    => hist.scans[1].ids = hist.scans[2].ids

\* the first n elements of a sequence
Prefix(q, n) == Slice(q, 1, Min(n, Len(q)))

\* C9 (monitor batch cap): in a tick at most BatchCap Errors are passed to
\* fix(), they are the first unseen ones in scan order, and when the tick
\* has ended seen_errors has grown by exactly the ids passed to fix().
BatchSeen ==
    mode = "monitor" =>
        /\ Len(hist.passed) <= BatchCap
        /\ hist.passed = Prefix(hist.tickNew, Len(hist.passed))
        /\ pc \in {"mon_sleep", "mon_backoff"} =>
              memory.seen_errors =
                  hist.tickSeen \cup {hist.passed[i] : i \in 1..Len(hist.passed)}

\* C10 (the monitor survives errors): in monitor mode no step ends the
\* process with an exception; an exception out of scan() or fix() leads to
\* the backoff sleep, the backoff sleep to the head of the loop, and the head
\* of the loop to a further iteration while `running` holds; the loop is
\* left only after stop() or a keyboard interrupt.
MonitorSurvives ==
    [][mode = "monitor" =>
          /\ pc' # "crashed"
          /\ pc' = "mon_exit" => hist'.stopSignal
          /\ result' # result /\ result'.value = "raise" => pc' = "mon_backoff"
          /\ pc = "mon_backoff" /\ pc' # pc =>
                pc' = "mon_head" \/ hist'.stopSignal
          /\ pc = "mon_head" /\ running /\ pc' # pc => pc' = "mon_scan"]_vars

\* an iteration after one that raised, with no stop signal
IterationAfterError ==
    /\ mode = "monitor"
    /\ pc = "mon_scan"
    /\ ticks >= 2
    /\ result.value = "raise"
    /\ ~hist.stopSignal

\* the text fix() read of the Error's file when it was entered
EntryText == DecodeIgnore(hist.fixEntry.content)

\* C11 (scenario A): for a report of "Cannot read property 'bar' of
\* undefined" at a line that holds a property access of two names (a.b for
\* foo.bar), analyze_error yields null_reference, and the Fix generate_fix
\* has returned is that of optional_chaining, with a?.b in its fixed text.
OptionalChainingFirst ==
    /\ pc \in {"apply", "fix_ret"}
    /\ hist.applyRet = "none"
    /\ work[idx].message = MsgNullRef
    /\ work[idx].file_path = JsFile
    /\ hist.fixEntry.exists
    /\ work[idx].line \in 1..Len(Split(EntryText))
    /\ Contains(Split(EntryText)[work[idx].line], <<"a", ".", "b">>)
    => /\ analyze_error(work[idx], learned_fixes).category = "null_reference"
       /\ fix # NoFix
       /\ fix.pattern_used = "optional_chaining"
       /\ Contains(fix.fixed, <<"a", "?", ".", "b">>)

\* a comma whose next character that is no white space is a closing brace
CommaBeforeBrace(t) ==
    \E i \in 1..Len(t) : t[i] = "," /\ At(t, SkipWs(t, i + 1)) = "}"

\* C12 (scenario B): when fix() has returned from the Error the
\* data-integrity sweep emitted for orders.json, which held a trailing comma
\* before a closing brace, the Error carries the parser's line number, its
\* category is json, the Fix is that of fix_json_trailing_comma and the file
\* parses as JSON.
TrailingCommaRepaired ==
    /\ pc = "fix_ret"
    /\ work[idx].id = "json_orders"
    /\ hist.fixEntry.exists
    /\ CommaBeforeBrace(hist.fixEntry.content)
    => /\ work[idx].line = JsonErrorLine(hist.fixEntry.content)
       /\ analyze_error(work[idx], learned_fixes).category = "json"
       /\ fix # NoFix
       /\ fix.pattern_used = "fix_json_trailing_comma"
       /\ ParsesJson(files["orders.json"].content)

\* the rebuild() that has just returned or raised, as hist records it
LastRebuild == hist.rebuilds[Len(hist.rebuilds)]

\* the data directory existed and held none of the data files
DataDirEmpty(r) ==
    /\ "data" \in r.dirs
    /\ \A n \in DataNames : ~r.files[n].exists

\* C13 as stated (scenario D): a rebuild() against an empty data directory
\* creates the 9 data files with their default content and reports a total
\* of exactly 9 actions.
EmptyDataNineActions ==
    /\ result.op = "rebuild"
    /\ DataDirEmpty(LastRebuild)
    => /\ LastRebuild.completed
       /\ \A n \in DataNames : files[n] = File(DefaultContent(n))
       /\ LastRebuild.total = 9

\* C13 amended: the same, when the directories rebuild() makes sure of all
\* exist and the client-error log is not larger than 1 MB.
EmptyDataRebuilt ==
    /\ result.op = "rebuild"
    /\ DataDirEmpty(LastRebuild)
    /\ LastRebuild.dirs = AllDirs
    /\ ~(LastRebuild.log.exists /\ LastRebuild.log.big)
    => /\ LastRebuild.completed
       /\ \A n \in DataNames : files[n] = File(DefaultContent(n))
       /\ LastRebuild.total = 9

\* a rebuild() has run on a complete tree whose data directory was empty
EmptyDataDirRebuilt ==
    /\ result.op = "rebuild"
    /\ DataDirEmpty(LastRebuild)
    /\ LastRebuild.dirs = AllDirs
    /\ ~(LastRebuild.log.exists /\ LastRebuild.log.big)
    /\ pc = "done"

(***************************************************************************)
(* main(): what the process has written and how it ends.                   *)
(***************************************************************************)
\* the standard output of the process: nothing before BlackonnAgent() is
\* constructed, then its banner and the "[AGENT] ..." lines of the
\* operations, all plain text; nothing in main() prints a JSON document
Stdout == IF pc = "start" THEN "empty" ELSE "text"

\* the process has ended
Exited == pc \in {"done", "crashed", "mon_exit"}

\* main() has no handler: an exception that leaves the mode's code ends the
\* process with a traceback on standard error and exit status 1
ExitStatus == IF pc = "crashed" THEN 1 ELSE 0

\* C14 (CLI output contract): a process that has ended has written a single
\* JSON document to standard output, and an exception inside the agent has
\* made it an {"error", "trace"} document, the exit status staying 0.
CliEmitsJson ==
    Exited =>
        /\ Stdout \in {"json", "error_json"}
        /\ result.value = "raise" => Stdout = "error_json"
        /\ ExitStatus = 0

\* the Fix record f is that of a fix that was applied and verified
AppliedAndVerified(f) == f.applied /\ f.verified /\ f.confidence > MIN_CONFIDENCE

\* C15 (learning only from verified success): every record of
\* fix_history.json is a Fix that was applied and verified and whose
\* confidence is above 0.5, and every learned fix in memory is that of such
\* a record.
LearnedAreVerified ==
    /\ \A i \in 1..Len(fixHistory) : AppliedAndVerified(fixHistory[i])
    /\ \A i \in 1..Len(learned_fixes) :
          \E j \in 1..Len(fixHistory) :
             /\ fixHistory[j].original = learned_fixes[i].original
             /\ fixHistory[j].fixed = learned_fixes[i].fixed
             /\ AppliedAndVerified(fixHistory[j])

\* C16 (sweep isolation): a scan() that has ended has not raised, whatever
\* a sweep met, and has returned the Errors of the client-log sweep and of
\* the syntax sweep.
SweepsIsolated ==
    result.op = "scan" =>
        /\ result.value # "raise"
        /\ Ids(scan_client_errors(clientLog, clock)
                   \o syntax_check_js(files, nodeAvailable))
              \subseteq {result.ids[i] : i \in 1..Len(result.ids)}

\* C17 (audit log): the step with which _apply_fix returns has appended one
\* Action, a success Action when it returns True and a failed one when it
\* returns False; no other step of _apply_fix touches the log, and within a
\* process the log only grows at its end.
AuditLogComplete ==
    [][/\ pc \in ApplyPcs /\ pc' = "apply_ret" =>
             /\ Len(actions') = Len(actions) + 1
             /\ actions'[Len(actions')].success = (hist'.applyRet = "true")
       /\ pc \in ApplyPcs /\ pc' \in ApplyPcs => actions' = actions
       /\ pc # "start" =>
             /\ Len(actions') >= Len(actions)
             /\ Prefix(actions', Len(actions)) = actions]_vars

\* the hub knows the engine and hands the task to it
Handled(engine_name, task) ==
    /\ engine_name \in HubEngines
    /\ \/ engine_name = "email"
       \/ task \in EagerTasks(engine_name) \cup ChainTasks(engine_name)

\* C18 (hub routing contract): a request for an unknown engine, for a task
\* the engine does not handle, or for an engine whose file cannot be loaded,
\* has been answered with a dict that has an "error" key, not an exception.
UnknownRouteErrors ==
    /\ pc = "hub_done"
    /\ ~Handled(hub.engine_name, hub.task) \/ hub.file # "ok"
    => hub.ret = "error"

\* the backup of this _apply_fix exists and holds what the file held when
\* _apply_fix read it
BackupHoldsEntry ==
    \E b \in backups :
       /\ b.kind = "bak" /\ b.of = fix.file_path /\ b.ts = clock
       /\ b.content = hist.applyEntry.content

\* new is old with its first occurrence of original, and nothing else,
\* replaced by fixed
FirstReplaced(old, new, original, fixed) ==
    \E i \in 1..Len(old) :
       /\ OccursAt(old, original, i)
       /\ \A j \in 1..(i - 1) : ~OccursAt(old, original, j)
       /\ new = Slice(old, 1, i - 1) \o fixed
                    \o Slice(old, i + Len(original), Len(old))

\* C19 (backup ordering): when _apply_fix is about to write, the backup is
\* there, holds the file's content as read, and the file is untouched; once
\* it has written, the backup still holds that content and the file is that
\* content with the first occurrence of fix.original replaced by fix.fixed.
BackupBeforeWrite ==
    /\ pc = "apply_write" =>
          /\ BackupHoldsEntry
          /\ files[fix.file_path] = hist.applyEntry
    /\ pc \in {"apply_verify", "apply_log"} =>
          /\ BackupHoldsEntry
          /\ FirstReplaced(hist.applyEntry.content,
                           files[fix.file_path].content, fix.original, fix.fixed)

\* _apply_fix has written a file in which fix.original occurred twice
FixWritten ==
    /\ pc \in {"apply_verify", "apply_log"}
    /\ fix.applied
    /\ files[fix.file_path] # hist.applyEntry
    /\ \E i, j \in 1..Len(hist.applyEntry.content) :
          /\ i < j
          /\ OccursAt(hist.applyEntry.content, fix.original, i)
          /\ OccursAt(hist.applyEntry.content, fix.original, j)

\* C20 (stop handling): in monitor mode the loop is left only from its head
\* or from the backoff sleep; a step taken inside _apply_fix leads to the
\* next step of _apply_fix or to its return, whatever stop signal arrives;
\* and from the head of the loop no scan is started once a stop signal has
\* been given.
StopAtTickBoundary ==
    [][mode = "monitor" =>
          /\ pc' = "mon_exit" /\ pc # pc' => pc \in {"mon_head", "mon_backoff"}
          /\ pc \in ApplyPcs => pc' \in ApplyPcs \cup {"apply_ret"}
          /\ pc = "mon_head" /\ hist.stopSignal => pc' # "mon_scan"]_vars

(***************************************************************************)
(* The classifier.                                                         *)
(***************************************************************************)
\* analyze_error has returned an analysis for the Error of this fix() call
Analysed == "category" \in DOMAIN hist.analysis

\* C22 (classifier tie-break): the rules analyze_error records are rules of
\* the knowledge base, can_fix tells whether any rule matched, and the
\* category is that of the matching rule that comes last in declaration
\* order ("unknown" when none matched).
LastMatchDecides ==
    Analysed =>
        LET matched == hist.analysis.patterns_matched
        IN  /\ matched \subseteq 1..Len(Patterns)
            /\ hist.analysis.can_fix = (matched # {})
            /\ hist.analysis.category =
                  IF matched = {} THEN "unknown"
                  ELSE Patterns[CHOOSE i \in matched :
                                    \A j \in matched : j <= i].category

\* a message that a syntax rule and a later json rule match is classified json
SyntaxThenJson ==
    /\ pc = "fix_ret"
    /\ Analysed
    /\ \E i, j \in hist.analysis.patterns_matched :
          /\ i < j
          /\ Patterns[i].category = "syntax"
          /\ Patterns[j].category = "json"
    /\ hist.analysis.category = "json"

\* fix() is at its first statement for an Error whose message is a string
\* that no rule matches, and the step is fix()'s own
MissStep ==
    /\ pc = "fix"
    /\ pc' \notin {"fix", "mon_head"}
    /\ work[idx].message # MsgNotStr
    /\ MatchedRules(work[idx].message) = {}

\* fix() returns None at once and leaves files, backups and memory alone
MissSkipped ==
    /\ pc' = "fix_ret"
    /\ result'.value = "cannot_fix"
    /\ ~hist'.analysis.can_fix
    /\ hist'.analysis.category = "unknown"
    /\ fix' = NoFix
    /\ files' = files
    /\ backups' = backups
    /\ memory' = memory
    /\ diskMemory' = diskMemory

\* C23 as stated (classification miss): when no rule matches the message,
\* analyze_error returns can_fix False, category "unknown" and a confidence
\* of about 0.25, and fix() returns without raising, writing a file, making a
\* backup or changing stats.fixes.
MissHasQuarterConfidence ==
    [][MissStep => MissSkipped /\ hist'.analysis.confidence \in 200..300]_vars

\* C23 as amended: the confidence is 0.0, or 0.15 when the message is similar
\* to the recorded message of a learned fix (the empty string).
MissHasNoConfidence ==
    [][MissStep =>
          /\ MissSkipped
          /\ hist'.analysis.confidence =
                IF \E i \in 1..Len(learned_fixes) :
                       learned_fixes[i].error_message = work[idx].message
                THEN 150 ELSE 0]_vars

\* fix() has returned for an Error about main.js that no rule matches
MissReturned ==
    /\ pc = "fix_ret"
    /\ Analysed
    /\ hist.analysis.patterns_matched = {}
    /\ hist.analysis.confidence = 0
    /\ work[idx].file_path = JsFile
    /\ files[JsFile] = hist.fixEntry
    /\ result.value = "cannot_fix"

(***************************************************************************)
(* Persistence of the memory, _apply_fix's failures, the monitor's ids.    *)
(***************************************************************************)
\* C26 (memory persistence): when a scan, a fix() or a monitor tick has
\* completed, agent_memory.json equals the memory of the process.
MemoryPersisted ==
    pc \in {"done", "fix_ret", "mon_sleep"} => diskMemory = memory

\* C28 (no unverified change is left): when _apply_fix has returned False,
\* the file is what it was when _apply_fix was entered.
ApplyFalseRestores ==
    pc = "apply_ret" /\ hist.applyRet = "false" =>
        files[fix.file_path] = hist.applyEntry

\* C29 (progress across a failing tick): before the scan of a tick, every id
\* passed to fix() in the tick before is in the persisted seen_errors.
PassedIdsPersisted ==
    mode = "monitor" /\ pc = "mon_scan" =>
        \A i \in 1..Len(hist.passed) :
            hist.passed[i] \in diskMemory.seen_errors

(***************************************************************************)
(* The learned fixes.                                                      *)
(***************************************************************************)
\* C24 (learned-fix reuse): once a Fix for an Error with message m has been
\* applied, verified and learned, the analysis of a later Error with the same
\* message has learned_fix_available True, a learned fix attached, and the
\* category's confidence raised by 0.15, up to 0.95.
LearnedFixReused ==
    [][/\ pc = "fix"
       /\ pc' \notin {"fix", "mon_head"}
       /\ work[idx].message \in hist.learnedFor
       => /\ hist'.analysis.learned_fix_available
          /\ hist'.analysis.learned_fix \in 1..Len(learned_fixes)
          /\ hist'.analysis.confidence =
                Min(950, CategoryConfidence(hist'.analysis.category) + 150)]_vars

(***************************************************************************)
(* The line-scoped Fix.                                                    *)
(***************************************************************************)
\* the lines of the file as fix() read it, and the Error's line
EntryLines == Split(DecodeIgnore(hist.fixEntry.content))

ErrorLine == work[idx].line

\* the current fix() call has synthesized its Fix from the Error's line
LineScoped ==
    /\ pc \in ApplyPcs \cup {"apply_ret", "fix_ret"}
    /\ fix # NoFix
    /\ fix.pattern_used \in TemplateNames
    /\ hist.fixEntry.exists
    /\ ErrorLine > 0
    /\ ErrorLine <= Len(EntryLines)
    /\ TemplateSearch(fix.pattern_used, EntryLines[ErrorLine]).found

\* the line the template makes of the Error's line
FixedLine == TemplateSub(fix.pattern_used, EntryLines[ErrorLine])

\* fix.original is the lines first..last of the file and fix.fixed the same
\* lines with the Error's line replaced
WindowIs(first, last) ==
    /\ Len(Split(fix.original)) = last - first + 1
    /\ \A k \in first..last : Split(fix.original)[k - first + 1] = EntryLines[k]
    /\ fix.fixed = Join([k \in 1..(last - first + 1) |->
                            IF k + first - 1 = ErrorLine THEN FixedLine
                            ELSE EntryLines[k + first - 1]])

\* C25 as stated (line-scoped window): the Fix's original and fixed are the
\* lines L-3 .. L+2 of the file, clipped at its start and end, and differ in
\* line L only.
WindowThreeBefore ==
    LineScoped =>
        WindowIs(Max(1, ErrorLine - 3), Min(Len(EntryLines), ErrorLine + 2))

\* C25 as amended: the lines are L-2 .. L+2, two before and two after.
WindowTwoBefore ==
    LineScoped =>
        WindowIs(Max(1, ErrorLine - 2), Min(Len(EntryLines), ErrorLine + 2))

\* a Fix for line 4 of a file of six lines: nothing is clipped
WindowInside ==
    /\ LineScoped
    /\ ErrorLine = 4
    /\ Len(EntryLines) = 6
    /\ Len(Split(fix.original)) = 5
    /\ fix.fixed # fix.original

\* C30 (only the Error's line changes): when a line-scoped Fix has been
\* applied successfully, the file is what it was when _apply_fix was entered
\* with the Error's line replaced and every other line as before.
OnlyErrorLineChanges ==
    LineScoped /\ pc = "apply_ret" /\ hist.applyRet = "true" =>
        files[fix.file_path].content =
            Join([Split(hist.applyEntry.content) EXCEPT ![ErrorLine] = FixedLine])

(***************************************************************************)
(* The cap of seen_errors.                                                 *)
(***************************************************************************)
\* C21 (seen_errors cap): when a tick has stored seen_errors, it holds at
\* most SeenCap ids and every id processed in the tick is among them.
SeenKeepsRecent ==
    mode = "monitor" /\ pc = "mon_sleep" =>
        /\ Cardinality(memory.seen_errors) <= SeenCap
        /\ \A i \in 1..Len(hist.passed) : hist.passed[i] \in memory.seen_errors

(***************************************************************************)
(* Requests that run side by side.                                         *)
(***************************************************************************)
\* the fix() call of request r has reported its Fix applied and has returned
ReportedApplied(r) == api[r].pc = "fix_ret" /\ api[r].ret = "true"

\* the text of the Fix of request r is not in its file
FixMissing(r) ==
    ~Contains(files[api[r].fix.file_path].content, api[r].fix.fixed)

\* fix() returns to the command-line loop with its Fix reported applied
SequentialReturn ==
    mode' \in {"fix", "monitor"} /\ pc = "apply_ret" /\ pc' = "fix_ret"
        /\ result'.value = "fixed"

\* fix() returns to the handler of request r with its Fix reported applied
ApiReturn(r) ==
    mode' = "api" /\ api[r].pc = "apply_ret" /\ api'[r].pc = "fix_ret"
        /\ api'[r].ret = "true"

\* C27 (interleaving hazard): at the return of a fix() that reports its Fix
\* successfully applied, the Fix's text is in the file, in the command-line
\* modes, which process one Error at a time, and in the API server for every
\* fix() call that did not run while another request was inside fix() on
\* the same file.
SequentialFixStays ==
    [][/\ SequentialReturn =>
            Contains(files'[fix'.file_path].content, fix'.fixed)
       /\ \A r \in Requests :
            ApiReturn(r) /\ ~api'[r].overlap =>
                Contains(files'[api'[r].fix.file_path].content,
                         api'[r].fix.fixed)]_vars

\* a request's fix() reports its verified Fix applied, and the rollback of
\* the other request has just restored a backup that does not hold it
RollbackErasedFix ==
    /\ mode = "api"
    /\ \E r, q \in Requests :
          /\ ReportedApplied(r)
          /\ api[r].fix.verified
          /\ api[r].overlap
          /\ api[r].fix.error_id # api[q].fix.error_id
          /\ FixMissing(r)
          /\ api[q].pc = "apply_ret"
          /\ api[q].node = "fail"
          /\ files[JsFile].content = BackupContent(JsFile, api[q].backup)
====
